---- MODULE Spec2Model ----
(***************************************************************************)
(* State-machine model of the hybrid markdown editor (HybridMarkdownEditor *)
(* and EditorLine, src/unnamed/part_000).                                  *)
(*                                                                         *)
(* A JavaScript string is modelled as a sequence of one-character strings, *)
(* so "- a" is <<"-", " ", "a">>.  Array and string indices are kept       *)
(* 0-based as in the source; the helpers below convert to TLA+'s 1-based   *)
(* sequences.  null is the JavaScript null / a failed regular-expression   *)
(* match.                                                                  *)
(***************************************************************************)
EXTENDS Integers, Sequences, FiniteSets, TLC

null == -1

----------------------------------------------------------------------------
(* Strings *)

\* The characters the regular-expression class \s matches, among the
\* characters the model uses.
WS == {" ", "\t", "\n", "\r"}

DigitChars == <<"0", "1", "2", "3", "4", "5", "6", "7", "8", "9">>

IsWs(c) == c \in WS

IsDigit(c) == \E v \in 1..10 : DigitChars[v] = c

Min(a, b) == IF a <= b THEN a ELSE b

Max(a, b) == IF a >= b THEN a ELSE b

\* String.prototype.slice(a, b) and slice(a) for 0 <= a, with JavaScript's
\* clamping of both ends to the length.
slice(s, a, b) == SubSeq(s, Min(a, Len(s)) + 1, Min(b, Len(s)))

sliceFrom(s, a) == SubSeq(s, Min(a, Len(s)) + 1, Len(s))

\* String.prototype.trim() === "": every character is whitespace.
IsBlank(s) == \A j \in 1..Len(s) : IsWs(s[j])

\* s.startsWith(p)
startsWith(s, p) == Len(p) <= Len(s) /\ SubSeq(s, 1, Len(p)) = p

\* Length of the greedy run \s* at the start of s.
wsRun(s) ==
  CHOOSE k \in 0..Len(s) :
    (\A j \in 1..k : IsWs(s[j])) /\ (k < Len(s) => ~IsWs(s[k + 1]))

\* Length of the greedy run #* at the start of s.
hashRun(s) ==
  CHOOSE k \in 0..Len(s) :
    (\A j \in 1..k : s[j] = "#") /\ (k < Len(s) => s[k + 1] # "#")

\* Length of the greedy run \d* that starts at 0-based index from.
digitRun(s, from) ==
  CHOOSE d \in 0..(Len(s) - from) :
    (\A j \in 1..d : IsDigit(s[from + j]))
    /\ (from + d < Len(s) => ~IsDigit(s[from + d + 1]))

DigitVal(c) == (CHOOSE v \in 1..10 : DigitChars[v] = c) - 1

\* parseInt(ds, 10) of a non-empty run of decimal digits.
RECURSIVE parseInt(_)
parseInt(ds) ==
  IF ds = <<>> THEN 0
  ELSE 10 * parseInt(SubSeq(ds, 1, Len(ds) - 1)) + DigitVal(ds[Len(ds)])

\* `${number}` of a natural number: decimal, no leading zeros.
RECURSIVE toString(_)
toString(n) ==
  IF n < 10 THEN <<DigitChars[n + 1]>>
  ELSE toString(n \div 10) \o <<DigitChars[(n % 10) + 1]>>

----------------------------------------------------------------------------
(* The prefix patterns.  Each operator gives the length of the match of    *)
(* the regular expression at the start of the line, or null.               *)

\* /^#{n}\s/
matchHeading(line, n) ==
  IF Len(line) >= n + 1 /\ (\A j \in 1..n : line[j] = "#") /\ IsWs(line[n + 1])
  THEN n + 1 ELSE null

\* /^#{1,4}\s/
matchHeading14(line) ==
  LET h == hashRun(line)
  IN IF h \in 1..4 /\ h < Len(line) /\ IsWs(line[h + 1]) THEN h + 1 ELSE null

\* /^#+\s/
matchHashes(line) ==
  LET h == hashRun(line)
  IN IF h >= 1 /\ h < Len(line) /\ IsWs(line[h + 1]) THEN h + 1 ELSE null

\* /^\s*[-*]\s\[[ xX]\]\s/
matchTask(line) ==
  LET k == wsRun(line)
  IN IF /\ Len(line) >= k + 6
        /\ line[k + 1] \in {"-", "*"}
        /\ IsWs(line[k + 2])
        /\ line[k + 3] = "["
        /\ line[k + 4] \in {" ", "x", "X"}
        /\ line[k + 5] = "]"
        /\ IsWs(line[k + 6])
     THEN k + 6 ELSE null

\* /^\s*[-*]\s/
matchUl(line) ==
  LET k == wsRun(line)
  IN IF Len(line) >= k + 2 /\ line[k + 1] \in {"-", "*"} /\ IsWs(line[k + 2])
     THEN k + 2 ELSE null

\* /^\s*\d+\.\s/
matchOl(line) ==
  LET k == wsRun(line)
      d == digitRun(line, k)
  IN IF /\ d >= 1
        /\ Len(line) >= k + d + 2
        /\ line[k + d + 1] = "."
        /\ IsWs(line[k + d + 2])
     THEN k + d + 2 ELSE null

\* /^\s*>\s/
matchBq(line) ==
  LET k == wsRun(line)
  IN IF Len(line) >= k + 2 /\ line[k + 1] = ">" /\ IsWs(line[k + 2])
     THEN k + 2 ELSE null

\* line.replace(re, "") for an anchored pattern whose match has length m.
stripMatch(line, m) == IF m = null THEN line ELSE sliceFrom(line, m)

----------------------------------------------------------------------------
(* Line classifier, list metadata, removed prefix *)

\* A variant of getMarkdownType whose list and quote patterns allow no
\* indentation.
getMarkdownType_unindented(line) ==
  IF matchHeading(line, 1) # null THEN "h1"
  ELSE IF matchHeading(line, 2) # null THEN "h2"
  ELSE IF matchHeading(line, 3) # null THEN "h3"
  ELSE IF matchHeading(line, 4) # null THEN "h4"
  ELSE IF wsRun(line) = 0 /\ matchTask(line) # null THEN "li"
  ELSE IF wsRun(line) = 0 /\ matchUl(line) # null THEN "li"
  ELSE IF wsRun(line) = 0 /\ matchOl(line) # null THEN "li"
  ELSE IF wsRun(line) = 0 /\ matchBq(line) # null THEN "blockquote"
  ELSE "p"

getMarkdownType(line) ==
  IF matchHeading(line, 1) # null THEN "h1"
  ELSE IF matchHeading(line, 2) # null THEN "h2"
  ELSE IF matchHeading(line, 3) # null THEN "h3"
  ELSE IF matchHeading(line, 4) # null THEN "h4"
  ELSE IF matchTask(line) # null THEN "li"
  ELSE IF matchUl(line) # null THEN "li"
  ELSE IF matchOl(line) # null THEN "li"
  ELSE IF matchBq(line) # null THEN "blockquote"
  ELSE "p"

\* /\[[xX]\]/.test(line): a checked box anywhere in the line.
isChecked(line) ==
  \E j \in 1..(Len(line) - 2) :
    line[j] = "[" /\ line[j + 1] \in {"x", "X"} /\ line[j + 2] = "]"

\* A variant of getListMeta whose nextMarker is the currentMarker for every
\* kind of line.
getListMeta_sameMarker(line) ==
  LET k == wsRun(line)
      indent == SubSeq(line, 1, k)
      bullet == <<line[k + 1]>>
      number == parseInt(SubSeq(line, k + 1, k + digitRun(line, k)))
      task == indent \o bullet \o <<" ", "[">>
                \o <<IF isChecked(line) THEN "x" ELSE " ">> \o <<"]", " ">>
      ol == indent \o toString(number) \o <<".", " ">>
  IN IF matchTask(line) # null THEN
       [kind |-> "task", indent |-> indent, currentMarker |-> task,
        nextMarker |-> task, number |-> null]
     ELSE IF matchUl(line) # null THEN
       [kind |-> "ul", indent |-> indent,
        currentMarker |-> indent \o bullet \o <<" ">>,
        nextMarker |-> indent \o bullet \o <<" ">>, number |-> null]
     ELSE IF matchOl(line) # null THEN
       [kind |-> "ol", indent |-> indent, currentMarker |-> ol,
        nextMarker |-> ol, number |-> number]
     ELSE IF matchBq(line) # null THEN
       [kind |-> "blockquote", indent |-> indent,
        currentMarker |-> indent \o <<">", " ">>,
        nextMarker |-> indent \o <<">", " ">>, number |-> null]
     ELSE
       [kind |-> "none", indent |-> indent,
        currentMarker |-> <<>>, nextMarker |-> <<>>, number |-> null]

\* kind is "none" for the source's null kind; number is null when absent.
getListMeta(line) ==
  LET k == wsRun(line)
      indent == SubSeq(line, 1, k)
      bullet == <<line[k + 1]>>
      number == parseInt(SubSeq(line, k + 1, k + digitRun(line, k)))
  IN IF matchTask(line) # null THEN
       [kind |-> "task", indent |-> indent,
        currentMarker |-> indent \o bullet \o <<" ", "[">>
                          \o <<IF isChecked(line) THEN "x" ELSE " ">>
                          \o <<"]", " ">>,
        nextMarker |-> indent \o bullet \o <<" ", "[", " ", "]", " ">>,
        number |-> null]
     ELSE IF matchUl(line) # null THEN
       [kind |-> "ul", indent |-> indent,
        currentMarker |-> indent \o bullet \o <<" ">>,
        nextMarker |-> indent \o bullet \o <<" ">>,
        number |-> null]
     ELSE IF matchOl(line) # null THEN
       [kind |-> "ol", indent |-> indent,
        currentMarker |-> indent \o toString(number) \o <<".", " ">>,
        nextMarker |-> indent \o toString(number + 1) \o <<".", " ">>,
        number |-> number]
     ELSE IF matchBq(line) # null THEN
       [kind |-> "blockquote", indent |-> indent,
        currentMarker |-> indent \o <<">", " ">>,
        nextMarker |-> indent \o <<">", " ">>,
        number |-> null]
     ELSE
       [kind |-> "none", indent |-> indent,
        currentMarker |-> <<>>, nextMarker |-> <<>>, number |-> null]

\* A variant of getRemovedPrefixLength that takes any run of # as a heading
\* prefix, as the rendering does.
getRemovedPrefixLength_anyHashes(line) ==
  IF matchHashes(line) # null THEN matchHashes(line)
  ELSE IF matchTask(line) # null THEN matchTask(line)
  ELSE IF matchUl(line) # null THEN matchUl(line)
  ELSE IF matchOl(line) # null THEN matchOl(line)
  ELSE IF matchBq(line) # null THEN matchBq(line)
  ELSE 0

getRemovedPrefixLength(line) ==
  IF matchHeading14(line) # null THEN matchHeading14(line)
  ELSE IF matchTask(line) # null THEN matchTask(line)
  ELSE IF matchUl(line) # null THEN matchUl(line)
  ELSE IF matchOl(line) # null THEN matchOl(line)
  ELSE IF matchBq(line) # null THEN matchBq(line)
  ELSE 0

----------------------------------------------------------------------------
(* Display / source offsets *)

\* content.startsWith("**", i)
starsAt(content, i) ==
  i + 2 <= Len(content) /\ content[i + 1] = "*" /\ content[i + 2] = "*"

\* The while loop of mapDisplayOffsetToSourceIndex: the index i at which it
\* returns, or null when it runs off the end of content.
RECURSIVE mapWalk(_, _, _, _)
mapWalk(content, i, displayCount, displayOffset) ==
  IF i >= Len(content) THEN null
  ELSE IF starsAt(content, i)
       THEN mapWalk(content, i + 2, displayCount, displayOffset)
  ELSE IF displayCount = displayOffset THEN i
  ELSE mapWalk(content, i + 1, displayCount + 1, displayOffset)

\* A variant of mapDisplayOffsetToSourceIndex that counts every character
\* after the prefix as a displayed one.
mapDisplayOffsetToSourceIndex_plain(line, displayOffset) ==
  Min(Len(line), getRemovedPrefixLength(line) + displayOffset)

mapDisplayOffsetToSourceIndex(line, displayOffset) ==
  LET prefix == getRemovedPrefixLength(line)
      r == mapWalk(sliceFrom(line, prefix), 0, 0, displayOffset)
  IN IF r = null THEN Len(line) ELSE prefix + r

\* s.replace(/\*\*/g, "")
RECURSIVE removeStars(_)
removeStars(s) ==
  IF Len(s) = 0 THEN s
  ELSE IF starsAt(s, 0) THEN removeStars(sliceFrom(s, 2))
  ELSE <<s[1]>> \o removeStars(Tail(s))

\* The chain of replace calls shared by getDisplayContentLength and, with
\* another heading pattern, by the default rendering: each pattern is
\* applied to the result of the one before it.
stripChain(afterHeading) ==
  LET a == stripMatch(afterHeading, matchTask(afterHeading))
      b == stripMatch(a, matchUl(a))
      c == stripMatch(b, matchOl(b))
  IN stripMatch(c, matchBq(c))

getDisplayContentLength(line) ==
  Len(removeStars(stripChain(stripMatch(line, matchHeading14(line)))))

\* The text of the default rendering of a line (the line-content element of
\* an inactive line): a blank line renders as one no-break space; otherwise
\* the prefixes are stripped and every **bold** run loses its four stars.
RECURSIVE boldMatches(_, _)
boldMatches(s, i) ==
  \* number of non-overlapping matches of /\*\*[^*]+\*\*/ in s from index i
  IF i + 5 > Len(s) THEN 0
  ELSE IF starsAt(s, i) /\ s[i + 3] # "*"
       THEN LET j == CHOOSE e \in (i + 3)..Len(s) :
                       (\A m \in (i + 3)..e : s[m] # "*")
                       /\ (e < Len(s) => s[e + 1] = "*")
            IN IF starsAt(s, j) THEN 1 + boldMatches(s, j + 2)
               ELSE boldMatches(s, i + 1)
       ELSE boldMatches(s, i + 1)

renderedLength(line) ==
  IF IsBlank(line) THEN 1
  ELSE LET stripped == stripChain(stripMatch(line, matchHashes(line)))
       IN Len(stripped) - 4 * boldMatches(stripped, 0)

----------------------------------------------------------------------------
(* Arrays of lines *)

\* value.split("\n")
RECURSIVE split(_)
split(s) ==
  IF \A j \in 1..Len(s) : s[j] # "\n" THEN <<s>>
  ELSE LET k == CHOOSE k \in 1..Len(s) :
                  s[k] = "\n" /\ \A j \in 1..(k - 1) : s[j] # "\n"
       IN <<SubSeq(s, 1, k - 1)>> \o split(SubSeq(s, k + 1, Len(s)))

\* lines.join("\n")
RECURSIVE join(_)
join(ls) ==
  IF Len(ls) = 0 THEN <<>>
  ELSE IF Len(ls) = 1 THEN ls[1]
  ELSE ls[1] \o <<"\n">> \o join(Tail(ls))

\* text.replace(/\r\n/g, "\n")
RECURSIVE replaceCRLF(_)
replaceCRLF(s) ==
  IF Len(s) = 0 THEN s
  ELSE IF Len(s) >= 2 /\ s[1] = "\r" /\ s[2] = "\n"
       THEN <<"\n">> \o replaceCRLF(sliceFrom(s, 2))
  ELSE <<s[1]>> \o replaceCRLF(Tail(s))

\* arr[i] of a line array; an index outside it reads undefined, which the
\* callers coalesce to "" (lines[i] ?? "").
lineAt(arr, i) == IF i >= 0 /\ i < Len(arr) THEN arr[i + 1] ELSE <<>>

\* next[i] = v.  Past the end JavaScript extends the array with holes,
\* which join() prints as empty strings; a hole is kept as an empty line.
jsSet(arr, i, v) ==
  IF i < Len(arr) THEN [arr EXCEPT ![i + 1] = v]
  ELSE arr \o [j \in 1..(i - Len(arr)) |-> <<>>] \o <<v>>

\* next.splice(start, deleteCount, ...items) for start, deleteCount >= 0.
jsSplice(arr, start, deleteCount, items) ==
  LET st == Min(start, Len(arr))
      del == Min(deleteCount, Len(arr) - st)
  IN SubSeq(arr, 1, st) \o items \o SubSeq(arr, st + del + 1, Len(arr))

----------------------------------------------------------------------------
(* Bounds and inputs of the model *)

\* User events (keys, typing, pastes, pointer actions, value changes by the
\* host) in one behaviour.
MaxSteps == 3

\* Deferred activations (setTimeout(..., 0)) in flight at once.
MaxTimers == 2

\* options.indentSize ?? 2
indentSize == 2

DocAb == <<"a", "b">>
DocOl == <<"1", ".", " ", "a">>
DocMixed == <<"#", " ", "A", "\n", "-", " ", "b", "c", "\n", "e", "t">>
DocTasks == <<"-", " ", "[", "X", "]", " ", "\n", "0", "1", ".", " ", "a">>
DocIndent == <<" ", " ", "-", " ", "\n", ">", " ", "q">>

\* The values the host passes as the value prop.
Values == {<<>>, DocAb, DocOl, DocMixed, DocTasks, DocIndent}

\* Characters typed into the active textarea.
TypeChars == {"a", " "}

\* Clipboard texts.
PasteTexts ==
  { <<"x", "\n", "y", "\n", "z">>,
    <<"p", "\r", "\n", "q">>,
    <<"\n">>,
    <<"x", "y">> }

Keys == {"Enter", "Backspace", "Tab", "ArrowUp", "ArrowDown"}

----------------------------------------------------------------------------
(* State *)

VARIABLES
  value,              \* the value prop
  lines,              \* useState lines
  activeLineIndex,    \* useState activeLineIndex (null: no active line)
  isDirty,            \* useState isDirty
  cursorPositionRef,  \* the pending caret (null: none)
  caret,              \* selectionStart of the active line's textarea
  timers,             \* targets of the setTimeout(..., 0) activations, FIFO
  rLines,             \* lines as of the last commit (the effects' old deps)
  rActive,            \* activeLineIndex as of the last commit
  rDirty,             \* isDirty as of the last commit
  pc,                 \* "idle": waiting for an event; "commit": a handler
                      \*   has returned, React renders and runs the effects
  last,               \* the event the handler before this commit handled
  steps,              \* user events so far
  readOnly,           \* the readOnly prop
  debounceTimer,      \* the debounce effect's timer is set
  ptr                 \* the pointer: the selection refs, the primary button
                      \*   and the window's selection

vars == <<value, lines, activeLineIndex, isDirty, cursorPositionRef, caret,
          timers, rLines, rActive, rDirty, pc, last, steps, readOnly,
          debounceTimer, ptr>>

\* The options prop, read by a handler when it runs: the host may pass
\* other options on any render, so every event draws them anew.
Options == [continueListsOnEnter : BOOLEAN, pasteSplitLines : BOOLEAN]

DefaultOptions == [continueListsOnEnter |-> TRUE, pasteSplitLines |-> TRUE]

\* A call of the extension API by an interceptor: api is the method, i its
\* index argument, n its count or caret argument, s its string argument.
ApiCall(api, i, n, s) == [api |-> api, i |-> i, n |-> n, s |-> s]

\* The interceptors called nothing (or there is no extension).
NoCall == ApiCall("none", null, null, <<>>)

\* The refs of lines 383-387 after construction (isSelectingRef,
\* draggingFromTextareaRef, bridgingSelectionRef, selectionAnchorRef), no
\* button held, no selection in the window: anchor and sel are <<>> for
\* null, anchor is <<index, offset>> and sel is <<anchor line, anchor
\* offset, focus line, focus offset>> in display offsets; moved tells that
\* the textarea's caret moved since its last select event.
NoPointer ==
  [isSelecting |-> FALSE, dragging |-> FALSE, bridging |-> FALSE,
   anchor |-> <<>>, sel |-> <<>>, down |-> FALSE, moved |-> FALSE]

NoEvent ==
  [op |-> "none", key |-> "", shift |-> FALSE, idx |-> null, caret |-> null,
   pre |-> <<>>, text |-> <<>>, sel |-> <<>>, options |-> DefaultOptions,
   call |-> NoCall, preDirty |-> FALSE, onChange |-> <<>>,
   onDebouncedChange |-> <<>>, exts |-> <<>>, called |-> <<>>,
   builtin |-> FALSE, left |-> <<>>, preCursor |-> null, line |-> <<>>,
   offset |-> null, type |-> "", meta |-> <<>>, target |-> <<>>,
   refs |-> NoPointer]

\* The active line has a textarea: activeLineIndex is an index of lines.
HasTextarea == activeLineIndex >= 0 /\ activeLineIndex < Len(lines)

\* The state after construction, whatever the readOnly prop.
InitState ==
  /\ value \in Values
  /\ lines = split(value)
  /\ activeLineIndex = null
  /\ isDirty = FALSE
  /\ cursorPositionRef = null
  /\ caret = null
  /\ timers = <<>>
  /\ rLines = lines
  /\ rActive = null
  /\ rDirty = FALSE
  /\ pc = "idle"
  /\ last = NoEvent
  /\ steps = 0
  /\ debounceTimer = FALSE
  /\ ptr = NoPointer

\* readOnly = false, the default of the prop.
Init == InitState /\ readOnly = FALSE

\* The editor with either value of the readOnly prop.
InitReadOnly == InitState /\ readOnly \in BOOLEAN

----------------------------------------------------------------------------
(* handleKeyDown, the built-in part (after the extensions' interceptors).  *)
(* cl is the lines array the handler closed over, prev the array the state *)
(* updaters receive; without extensions the two are equal.  The result is  *)
(* what the handler leaves: lines, isDirty, the pending caret, the target  *)
(* of the activation it defers (null: none) and activeLineIndex.           *)

\* onChange holds the arguments of the handler's calls of the onChange prop.
Result(ls, dirty, cur, tmr, act) ==
  [lines |-> ls, isDirty |-> dirty, cursor |-> cur, timer |-> tmr,
   active |-> act, onChange |-> <<>>]

\* No branch of the handler applies: nothing is changed.
Untouched(prev) ==
  Result(prev, isDirty, cursorPositionRef, null, activeLineIndex)

\* line.replace(new RegExp("^" + escaped(marker)), "")
stripMarker(line, marker) ==
  IF startsWith(line, marker) THEN sliceFrom(line, Len(marker)) ELSE line

\* A variant of the condition that never holds: Enter always splits.
enterTerminates_never(line, crt) == FALSE

\* The condition of the list-terminating branch of Enter.
enterTerminates(line, crt) ==
  LET meta == getListMeta(line)
  IN /\ meta.kind # "none"
     /\ IsBlank(stripMarker(line, meta.currentMarker))
     /\ crt >= Len(meta.currentMarker)

\* The list-terminating branch of Enter (lines 590-598).
enterTerminate(prev, idx, meta) ==
  Result(jsSet(prev, idx, meta.indent), TRUE, Len(meta.indent), idx,
         activeLineIndex)

\* A variant of enterSplit that writes the new line over the line that
\* follows.
enterSplit_overwrites(prev, idx, before, inserted, cur) ==
  Result(jsSet(jsSet(prev, idx, before), idx + 1, inserted),
         TRUE, cur, idx + 1, activeLineIndex)

\* The splitting branch of Enter (lines 600-614): line idx becomes before,
\* inserted goes in after it, cur is the pending caret.
enterSplit(prev, idx, before, inserted, cur) ==
  Result(jsSplice(jsSet(prev, idx, before), idx + 1, 0, <<inserted>>),
         TRUE, cur, idx + 1, activeLineIndex)

\* A variant of keyEnter that never continues a list on the new line.
keyEnter_plainSplit(cl, prev, idx, crt, options) ==
  LET line == lineAt(cl, idx)
  IN IF enterTerminates(line, crt)
     THEN enterTerminate(prev, idx, getListMeta(line))
     ELSE enterSplit(prev, idx, slice(line, 0, crt), sliceFrom(line, crt), 0)

keyEnter(cl, prev, idx, crt, options) ==
  LET line == lineAt(cl, idx)
      meta == getListMeta(line)
      before == slice(line, 0, crt)
      after == sliceFrom(line, crt)
      continueLists == options.continueListsOnEnter
  IN IF enterTerminates(line, crt)
     THEN enterTerminate(prev, idx, meta)
     ELSE IF meta.kind # "none" /\ continueLists
     THEN enterSplit(prev, idx, before, meta.nextMarker \o after,
                     Len(meta.nextMarker))
     ELSE enterSplit(prev, idx, before, after, 0)

\* next[idx - 1] as "+=" reads it: a missing element prints as "undefined".
mergeTarget(prev, idx) ==
  IF idx - 1 < Len(prev) THEN prev[idx]
  ELSE <<"u", "n", "d", "e", "f", "i", "n", "e", "d">>

\* A variant of keyBackspaceMerge that joins the two lines the other way
\* round.
keyBackspaceMerge_swapped(cl, prev, idx) ==
  Result(jsSplice(jsSet(prev, idx - 1,
                        lineAt(cl, idx) \o mergeTarget(prev, idx)), idx, 1,
                  <<>>),
         TRUE, Len(lineAt(cl, idx - 1)), idx - 1, activeLineIndex)

\* next[idx - 1] += textToPrepend; next.splice(idx, 1)
keyBackspaceMerge(cl, prev, idx) ==
  LET textToPrepend == lineAt(cl, idx)
      prevLen == Len(lineAt(cl, idx - 1))
      target == mergeTarget(prev, idx)
  IN Result(jsSplice(jsSet(prev, idx - 1, target \o textToPrepend), idx, 1,
                     <<>>),
            TRUE, prevLen, idx - 1, activeLineIndex)

\* The condition of the marker-stripping branch of Backspace.
backspaceStrips(line, crt) ==
  LET meta == getListMeta(line)
  IN /\ meta.kind # "none"
     /\ crt <= Len(meta.currentMarker)
     /\ Len(meta.currentMarker) > 0

keyBackspaceStrip(cl, prev, idx) ==
  LET line == lineAt(cl, idx)
      meta == getListMeta(line)
  IN Result(jsSet(prev, idx, sliceFrom(line, Len(meta.currentMarker))),
            TRUE, 0, idx, activeLineIndex)

\* new RegExp(`^\\s{${indentSize},}`).test(line)
hasIndent(line) == wsRun(line) >= indentSize

\* line.replace(new RegExp(`^ {${indentSize}}`), "")
removeSpaces(line) ==
  IF Len(line) >= indentSize /\ \A j \in 1..indentSize : line[j] = " "
  THEN sliceFrom(line, indentSize) ELSE line

\* A variant of keyTab that leaves the pending caret where the caret is.
keyTab_caretStays(cl, prev, idx, crt, shift) ==
  LET line == lineAt(cl, idx)
  IN IF shift
     THEN Result(IF hasIndent(line) THEN jsSet(prev, idx, removeSpaces(line))
                 ELSE prev,
                 TRUE, Max(0, crt - indentSize), idx, activeLineIndex)
     ELSE Result(jsSet(prev, idx, [j \in 1..indentSize |-> " "] \o line),
                 TRUE, crt, idx, activeLineIndex)

keyTab(cl, prev, idx, crt, shift) ==
  LET line == lineAt(cl, idx)
  IN IF shift
     THEN Result(IF hasIndent(line) THEN jsSet(prev, idx, removeSpaces(line))
                 ELSE prev,
                 TRUE, Max(0, crt - indentSize), idx, activeLineIndex)
     ELSE Result(jsSet(prev, idx, [j \in 1..indentSize |-> " "] \o line),
                 TRUE, crt + indentSize, idx, activeLineIndex)

\* A variant of keyArrow that carries the display column, the caret less
\* the structural prefix of the line left.
keyArrow_displayColumn(cl, prev, idx, crt, to) ==
  Result(prev, isDirty,
         Max(0, crt - getRemovedPrefixLength(lineAt(cl, idx))), null, to)

\* The two arrow branches (lines 682-693): cursorPositionRef.current =
\* caret ?? 0; setActiveLineIndex(to).
keyArrow(cl, prev, idx, crt, to) ==
  Result(prev, isDirty, crt, null, to)

handleKeyDown(cl, prev, idx, crt, key, shift, options) ==
  IF key = "Enter" THEN keyEnter(cl, prev, idx, crt, options)
  ELSE IF key = "Backspace" /\ crt = 0 /\ idx > 0
       THEN keyBackspaceMerge(cl, prev, idx)
  ELSE IF key = "Backspace" /\ backspaceStrips(lineAt(cl, idx), crt)
       THEN keyBackspaceStrip(cl, prev, idx)
  ELSE IF key = "Tab" /\ getListMeta(lineAt(cl, idx)).kind # "none"
       THEN keyTab(cl, prev, idx, crt, shift)
  ELSE IF key = "ArrowUp" /\ idx > 0
       THEN keyArrow(cl, prev, idx, crt, idx - 1)
  ELSE IF key = "ArrowDown" /\ idx < Len(cl) - 1
       THEN keyArrow(cl, prev, idx, crt, idx + 1)
  ELSE Untouched(prev)

----------------------------------------------------------------------------
(* handleLineChange, handlePaste (built-in part), deleteCurrentSelection *)

\* setLines(prev => { next[idx] = value }); setIsDirty(true);
\* onChange?.(lines.map((l, i) => (i === idx ? value : l)).join("\n")),
\* lines being the array of the render the handler belongs to.
handleLineChange(prev, idx, v) ==
  [Result(jsSet(prev, idx, v), TRUE, cursorPositionRef, null, activeLineIndex)
     EXCEPT !.onChange =
       <<join([j \in 1..Len(lines) |-> IF j = idx + 1 THEN v ELSE lines[j]])>>]

\* The condition under which handlePaste splits the clipboard text itself;
\* otherwise it returns and the textarea's default paste follows.
\* multiSel: window.getSelection().toString() holds a line break.
pasteSplits(text, multiSel, options) ==
  /\ ~multiSel
  /\ options.pasteSplitLines
  /\ \E j \in 1..Len(text) : text[j] = "\n"

\* The part of handlePaste after the clipboard text is split into pasted
\* (lines 535-552).
pasteLines(cl, prev, idx, crt, pasted) ==
  LET line == lineAt(cl, idx)
      before == slice(line, 0, crt)
      after == sliceFrom(line, crt)
      head == before \o pasted[1]
      tail == pasted[Len(pasted)] \o after
      withHead == jsSet(prev, idx, head)
  IN Result(IF Len(pasted) > 1
            THEN jsSplice(withHead, idx + 1, 0,
                          SubSeq(pasted, 2, Len(pasted) - 1) \o <<tail>>)
            ELSE withHead,
            TRUE, Len(pasted[Len(pasted)]), idx + Len(pasted) - 1,
            activeLineIndex)

\* A variant of handlePaste that splits the text as it is, carriage returns
\* included.
handlePaste_rawSplit(cl, prev, idx, crt, text) ==
  pasteLines(cl, prev, idx, crt, split(text))

\* text.replace(/\r\n/g, "\n").split("\n"), then the insertion.
handlePaste(cl, prev, idx, crt, text) ==
  pasteLines(cl, prev, idx, crt, split(replaceCRLF(text)))

\* The selection's endpoints in document order (lines 719-725):
\* <<startIdx, startDisp, endIdx, endDisp>>.
normalizeSelection(aIdx, aOff, fIdx, fOff) ==
  IF aIdx > fIdx \/ (aIdx = fIdx /\ aOff > fOff)
  THEN <<fIdx, fOff, aIdx, aOff>>
  ELSE <<aIdx, aOff, fIdx, fOff>>

\* The merged line of a selection that spans several lines (lines 747-754).
mergedLine(cl, prev, startIdx, startDisp, endIdx, endDisp) ==
  LET startSrc == mapDisplayOffsetToSourceIndex(lineAt(cl, startIdx), startDisp)
      endSrc == mapDisplayOffsetToSourceIndex(lineAt(cl, endIdx), endDisp)
      startLine == lineAt(prev, startIdx)
      endLine == lineAt(prev, endIdx)
      startIsLineStart == startDisp = 0
      endIsLineEnd == endDisp = getDisplayContentLength(endLine)
      startCut == IF startIsLineStart THEN 0 ELSE startSrc
      endCut == IF endIsLineEnd THEN Len(endLine) ELSE endSrc
  IN slice(startLine, 0, startCut) \o sliceFrom(endLine, endCut)

\* next as the setLines updater of deleteCurrentSelection has it before its
\* return statements (lines 731-743, 747-755).
selectionSpliced(cl, prev, startIdx, startDisp, endIdx, endDisp) ==
  LET startSrc == mapDisplayOffsetToSourceIndex(lineAt(cl, startIdx), startDisp)
      endSrc == mapDisplayOffsetToSourceIndex(lineAt(cl, endIdx), endDisp)
      startIsLineStart == startDisp = 0
  IN IF startIdx = endIdx
     THEN LET line == lineAt(prev, startIdx)
              endIsLineEnd == endDisp = getDisplayContentLength(line)
              s == IF startIsLineStart THEN 0 ELSE startSrc
              e == IF endIsLineEnd THEN Len(line) ELSE endSrc
          IN IF startIsLineStart /\ endIsLineEnd
             THEN jsSplice(prev, startIdx, 1, <<>>)
             ELSE jsSet(prev, startIdx,
                        slice(line, 0, s) \o sliceFrom(line, e))
     ELSE jsSplice(prev, startIdx, endIdx - startIdx + 1,
                   <<mergedLine(cl, prev, startIdx, startDisp, endIdx,
                                endDisp)>>)

\* A variant of deleteSelectionLines that returns next as it is, empty or
\* not.
deleteSelectionLines_unguarded(cl, prev, startIdx, startDisp, endIdx, endDisp) ==
  selectionSpliced(cl, prev, startIdx, startDisp, endIdx, endDisp)

\* A variant of deleteSelectionLines that puts the merged line in place of
\* the start line and leaves the lines after it where they are.
deleteSelectionLines_startOnly(cl, prev, startIdx, startDisp, endIdx, endDisp) ==
  IF startIdx = endIdx
  THEN LET next == selectionSpliced(cl, prev, startIdx, startDisp, endIdx,
                                    endDisp)
       IN IF Len(next) = 0 THEN << <<>> >> ELSE next
  ELSE jsSet(prev, startIdx,
             mergedLine(cl, prev, startIdx, startDisp, endIdx, endDisp))

\* A variant of deleteSelectionLines that cuts a line at the mapped source
\* offsets of the two endpoints, also when an endpoint is at the visible
\* start or end of the line.
deleteSelectionLines_mappedCuts(cl, prev, startIdx, startDisp, endIdx, endDisp) ==
  LET line == lineAt(prev, startIdx)
      startSrc == mapDisplayOffsetToSourceIndex(lineAt(cl, startIdx), startDisp)
      endSrc == mapDisplayOffsetToSourceIndex(lineAt(cl, endIdx), endDisp)
      next == IF /\ startIdx = endIdx
                 /\ ~(startDisp = 0 /\ endDisp = getDisplayContentLength(line))
              THEN jsSet(prev, startIdx,
                         slice(line, 0, startSrc) \o sliceFrom(line, endSrc))
              ELSE selectionSpliced(cl, prev, startIdx, startDisp, endIdx,
                                    endDisp)
  IN IF Len(next) = 0 THEN << <<>> >> ELSE next

\* The array the setLines updater of deleteCurrentSelection returns:
\* next.length === 0 ? [""] : next.
deleteSelectionLines(cl, prev, startIdx, startDisp, endIdx, endDisp) ==
  LET next == selectionSpliced(cl, prev, startIdx, startDisp, endIdx, endDisp)
  IN IF Len(next) = 0 THEN << <<>> >> ELSE next

deleteCurrentSelection(cl, prev, startIdx, startDisp, endIdx, endDisp) ==
  Result(deleteSelectionLines(cl, prev, startIdx, startDisp, endIdx, endDisp),
         TRUE,
         mapDisplayOffsetToSourceIndex(lineAt(cl, startIdx), startDisp),
         null,
         Min(startIdx, Len(cl) - 1))

----------------------------------------------------------------------------
(* Events.  A handler runs to its end in one step and leaves pc = "commit" *)
(* when it set React state; Commit is React's render and effects.          *)

Event(op, key, shift, idx, crt, text, sel, options) ==
  [op |-> op, key |-> key, shift |-> shift, idx |-> idx, caret |-> crt,
   pre |-> lines, text |-> text, sel |-> sel, options |-> options,
   call |-> NoCall, preDirty |-> isDirty, onChange |-> <<>>,
   onDebouncedChange |-> <<>>, exts |-> <<>>, called |-> <<>>,
   builtin |-> FALSE, left |-> <<>>, preCursor |-> cursorPositionRef,
   line |-> <<>>, offset |-> null, type |-> "", meta |-> <<>>,
   target |-> <<>>, refs |-> ptr]

\* What the call of an interceptor leaves, as an updater on prev (lines
\* 516-523, 561-568).  No method of the API calls setIsDirty.
apiCall(call, prev) ==
  IF call.api = "setValue"
  THEN Result(split(call.s), isDirty, cursorPositionRef, null, activeLineIndex)
  ELSE IF call.api = "setLine"
  THEN Result(jsSet(prev, call.i, call.s), isDirty, cursorPositionRef, null,
              activeLineIndex)
  ELSE IF call.api = "insertLine"
  THEN Result(jsSplice(prev, call.i, 0, <<call.s>>), isDirty,
              cursorPositionRef, null, activeLineIndex)
  ELSE IF call.api = "deleteLines"
  THEN Result(jsSplice(prev, call.i, call.n, <<>>), isDirty,
              cursorPositionRef, null, activeLineIndex)
  ELSE IF call.api = "setActiveLineIndex"
  THEN Result(prev, isDirty,
              IF call.n # null THEN call.n ELSE cursorPositionRef, null,
              call.i)
  ELSE Untouched(prev)

\* The built-in part's result r on top of e, what the interceptors left:
\* a built-in branch that acts sets the pending caret, and only the arrow
\* keys set activeLineIndex.
afterInterceptors(e, r) ==
  IF r = Untouched(e.lines) THEN e
  ELSE [r EXCEPT !.active = IF r.active # activeLineIndex THEN r.active
                            ELSE e.active]

\* What a handler's result r does to the state; ev records the event.
Apply(r, ev) ==
  /\ r.timer = null \/ Len(timers) < MaxTimers
  /\ lines' = r.lines
  /\ isDirty' = r.isDirty
  /\ cursorPositionRef' = r.cursor
  /\ activeLineIndex' = r.active
  /\ timers' = IF r.timer = null THEN timers ELSE Append(timers, r.timer)
  /\ steps' = steps + 1
  /\ last' = [ev EXCEPT !.onChange = r.onChange]
  /\ pc' = "commit"
  /\ UNCHANGED <<value, rLines, rActive, rDirty, readOnly, debounceTimer,
                 ptr>>

\* EditorLine.handleChange, then handleLineChange: the textarea's value
\* became typed and its caret crt, which handleChange records as the
\* pending caret unless a pointer selection is going on.
lineTyped(prev, idx, typed, crt) ==
  [handleLineChange(prev, idx, typed)
     EXCEPT !.cursor = IF ptr.isSelecting THEN cursorPositionRef ELSE crt]

\* A key pressed in the active line's textarea.  A Backspace the handler
\* leaves alone deletes the character before the caret (the textarea's
\* default), which reaches handleLineChange through EditorLine.handleChange.
\* call is what the interceptors did before they let the event through.
\* During a pointer selection the handler returns at once
\* (if (isSelectingRef.current) return, line 572) and every key has the
\* textarea's default: Enter inserts a line break at the caret.
keyDownThrough(key, shift, options, e, ev) ==
  /\ LET idx == activeLineIndex
         line == lineAt(lines, idx)
     IN \E r \in {IF ptr.isSelecting THEN Untouched(e.lines)
                  ELSE handleKeyDown(lines, e.lines, idx, caret, key, shift,
                                     options)} :
          IF key = "Enter" /\ ptr.isSelecting
          THEN /\ Apply(afterInterceptors(e,
                          lineTyped(e.lines, idx,
                                    slice(line, 0, caret) \o <<"\n">>
                                      \o sliceFrom(line, caret),
                                    caret + 1)),
                        ev)
               /\ caret' = caret + 1
          ELSE
          IF key = "Backspace" /\ r = Untouched(e.lines) /\ caret > 0
          THEN /\ Apply(afterInterceptors(e,
                          lineTyped(e.lines, idx,
                                    slice(line, 0, caret - 1)
                                      \o sliceFrom(line, caret),
                                    caret - 1)),
                        ev)
               /\ caret' = caret - 1
          ELSE /\ Apply(afterInterceptors(e, r), ev)
               /\ caret' = caret

keyDownEvent(key, shift, options, call) ==
  keyDownThrough(key, shift, options, apiCall(call, lines),
                 [Event("key", key, shift, activeLineIndex, caret, <<>>, <<>>,
                        options)
                    EXCEPT !.call = call])

KeyDown ==
  /\ pc = "idle"
  /\ steps < MaxSteps
  /\ HasTextarea
  /\ \/ \E key \in Keys :
          \E options \in IF key = "Enter" THEN Options ELSE {DefaultOptions} :
            keyDownEvent(key, FALSE, options, NoCall)
     \/ keyDownEvent("Tab", TRUE, DefaultOptions, NoCall)

\* A character typed at the caret of the active line's textarea.
TypeChar ==
  /\ pc = "idle"
  /\ steps < MaxSteps
  /\ HasTextarea
  /\ LET idx == activeLineIndex
         line == lineAt(lines, idx)
     IN \E ch \in TypeChars :
          \E r \in {lineTyped(lines, idx,
                              slice(line, 0, caret) \o <<ch>>
                                \o sliceFrom(line, caret),
                              caret + 1)} :
          Apply(r, Event("type", ch, FALSE, idx, caret, <<>>, <<>>,
                         DefaultOptions))
  /\ caret' = caret + 1

\* A paste into the active line's textarea.  When handlePaste returns
\* without preventDefault the textarea inserts the text at the caret itself
\* (CRLF normalised to LF in its value) and handleLineChange follows.
\* call is what the interceptors did before they let the event through.
pasteThrough(text, multiSel, options, e, ev) ==
  /\ LET idx == activeLineIndex
         line == lineAt(lines, idx)
         ins == replaceCRLF(text)
     IN IF pasteSplits(text, multiSel, options)
        THEN /\ \E r \in {handlePaste(lines, e.lines, idx, caret, text)} :
                  Apply(afterInterceptors(e, r), ev)
             /\ caret' = caret
        ELSE /\ \E r \in {lineTyped(e.lines, idx,
                                    slice(line, 0, caret) \o ins
                                      \o sliceFrom(line, caret),
                                    caret + Len(ins))} :
                  Apply(afterInterceptors(e, r), ev)
             /\ caret' = caret + Len(ins)

pasteEvent(text, multiSel, options, call) ==
  pasteThrough(text, multiSel, options, apiCall(call, lines),
               [Event("paste", IF multiSel THEN "multiSel" ELSE "", FALSE,
                      activeLineIndex, caret, text, <<>>, options)
                  EXCEPT !.call = call])

Paste ==
  /\ pc = "idle"
  /\ steps < MaxSteps
  /\ HasTextarea
  /\ \E text \in PasteTexts, multiSel \in BOOLEAN :
       \E options \in {o \in Options : o.continueListsOnEnter} :
         pasteEvent(text, multiSel, options, NoCall)

\* Backspace or Delete with a non-collapsed selection whose endpoints lie in
\* the rendered content of inactive lines (the window keydown listener).
\* The display offsets are measured on the rendered text.
deleteSelectionEvent(aIdx, aOff, fIdx, fOff) ==
  /\ aIdx # activeLineIndex /\ fIdx # activeLineIndex
  /\ <<aIdx, aOff>> # <<fIdx, fOff>>
  /\ LET n == normalizeSelection(aIdx, aOff, fIdx, fOff)
     IN \E r \in {deleteCurrentSelection(lines, lines, n[1], n[2], n[3], n[4])} :
          Apply(r, Event("deleteSelection", "", FALSE, n[1], null, <<>>, n,
                         DefaultOptions))
  /\ caret' = caret

DeleteSelection ==
  /\ pc = "idle"
  /\ steps < MaxSteps
  /\ \E aIdx \in 0..(Len(lines) - 1) :
       \E aOff \in 0..renderedLength(lineAt(lines, aIdx)) :
         \E fIdx \in 0..(Len(lines) - 1) :
           \E fOff \in 0..renderedLength(lineAt(lines, fIdx)) :
             deleteSelectionEvent(aIdx, aOff, fIdx, fOff)

\* The caret moved inside the active textarea (pointer or arrow keys);
\* onSelect records it as the pending caret.
MoveCaret ==
  /\ pc = "idle"
  /\ steps < MaxSteps
  /\ HasTextarea
  /\ \E c \in 0..Len(lineAt(lines, activeLineIndex)) :
       /\ c # caret
       /\ caret' = c
       /\ cursorPositionRef' = c
  /\ steps' = steps + 1
  /\ UNCHANGED <<value, lines, activeLineIndex, isDirty, timers, rLines,
                 rActive, rDirty, pc, last, readOnly, debounceTimer, ptr>>

\* A click (mouse up with a collapsed selection) on the rendered content of
\* the inactive line j, at display offset off.
Click ==
  /\ pc = "idle"
  /\ steps < MaxSteps
  /\ Len(timers) < MaxTimers
  /\ \E j \in 0..(Len(lines) - 1) :
       \E off \in 0..renderedLength(lineAt(lines, j)) :
         /\ j # activeLineIndex
         /\ cursorPositionRef'
              = mapDisplayOffsetToSourceIndex(lineAt(lines, j), off)
         /\ timers' = Append(timers, j)
  /\ steps' = steps + 1
  /\ UNCHANGED <<value, lines, activeLineIndex, isDirty, caret, rLines,
                 rActive, rDirty, pc, last, readOnly, debounceTimer, ptr>>

\* A click or mouse down on the content container outside every line
\* (if (readOnly) return).
Deactivate ==
  /\ pc = "idle"
  /\ steps < MaxSteps
  /\ ~readOnly
  /\ activeLineIndex # null
  /\ activeLineIndex' = null
  /\ steps' = steps + 1
  /\ pc' = "commit"
  /\ last' = Event("deactivate", "", FALSE, activeLineIndex, caret, <<>>, <<>>,
                   DefaultOptions)
  /\ UNCHANGED <<value, lines, isDirty, cursorPositionRef, caret, timers,
                 rLines, rActive, rDirty, readOnly, debounceTimer, ptr>>

\* The oldest deferred activation fires: setActiveLineIndex(target).
TimerFire ==
  /\ pc = "idle"
  /\ timers # <<>>
  /\ activeLineIndex' = Head(timers)
  /\ timers' = Tail(timers)
  /\ pc' = "commit"
  /\ last' = Event("timer", "", FALSE, Head(timers), caret, <<>>, <<>>,
                   DefaultOptions)
  /\ UNCHANGED <<value, lines, isDirty, cursorPositionRef, caret, rLines,
                 rActive, rDirty, steps, readOnly, debounceTimer, ptr>>

\* A variant of valueLines that drops the empty segments.
valueLines_skipBlank(v) == SelectSeq(split(v), LAMBDA l : l # <<>>)

\* (value || "").split("\n") of the effect on [value].
valueLines(v) == split(v)

\* The host passes another value: the effect on [value] splits it again and
\* clears isDirty.
SetValue ==
  /\ pc = "idle"
  /\ steps < MaxSteps
  /\ \E v \in Values \ {value} :
       /\ value' = v
       /\ lines' = valueLines(v)
       /\ last' = Event("value", "", FALSE, activeLineIndex, caret, v, <<>>,
                        DefaultOptions)
  /\ isDirty' = FALSE
  /\ steps' = steps + 1
  /\ pc' = "commit"
  /\ UNCHANGED <<activeLineIndex, cursorPositionRef, caret, timers, rLines,
                 rActive, rDirty, readOnly, debounceTimer, ptr>>

\* A variant of debounceContent that reports the value prop.
debounceContent_value(ls) == join(split(value))

\* const content = lines.join("\n"), lines being the array of the render
\* whose effect set the timer.
debounceContent(ls) == join(ls)

\* A variant of clearTimeout that leaves the timer set.
clearTimeout_noop(timer) == timer

\* clearTimeout(handle) in the debounce effect's cleanup: whether the timer
\* is still set afterwards.
clearTimeout(timer) == FALSE

\* The debounce timer fires: onDebouncedChange(content) and
\* setIsDirty(false).
DebounceFire ==
  /\ pc = "idle"
  /\ debounceTimer
  /\ isDirty' = FALSE
  /\ debounceTimer' = FALSE
  /\ pc' = "commit"
  /\ last' = [Event("debounce", "", FALSE, activeLineIndex, caret, <<>>, <<>>,
                    DefaultOptions)
                EXCEPT !.onDebouncedChange = <<debounceContent(rLines)>>]
  /\ UNCHANGED <<value, lines, activeLineIndex, cursorPositionRef, caret,
                 timers, rLines, rActive, rDirty, steps, readOnly, ptr>>

\* The host unmounts the editor: the effects' cleanups run (clearTimeout of
\* the debounce timer, line 401) and no handler runs any more.
Teardown ==
  /\ pc = "idle"
  /\ steps < MaxSteps
  /\ pc' = "unmounted"
  /\ debounceTimer' = clearTimeout(debounceTimer)
  /\ steps' = steps + 1
  /\ last' = Event("teardown", "", FALSE, activeLineIndex, caret, <<>>, <<>>,
                   DefaultOptions)
  /\ UNCHANGED <<value, lines, activeLineIndex, isDirty, cursorPositionRef,
                 caret, timers, rLines, rActive, rDirty, readOnly, ptr>>

\* EditorLine's effect on [isActive, line] runs for the line at index i.
effectRuns(i) ==
  \/ rActive # i
  \/ i >= Len(rLines)
  \/ lineAt(rLines, i) # lineAt(lines, i)

\* The debounce effect (deps lines, isDirty, debounceMs, onDebouncedChange)
\* runs again: its cleanup clears the timer and it sets one when isDirty.
debounceEffectRuns ==
  lines # rLines \/ isDirty # rDirty

\* React renders and runs the effects.  Of the lines' effects
\* only the active line's acts:
\* it focuses the textarea and, when a pending caret is set, applies it
\* (setSelectionRange clamps it to the text) and clears it.  A textarea
\* that mounts with no pending caret has the caret where the browser puts
\* it, at the start or at the end of the text; one whose value React
\* replaces has it at the end.
Commit ==
  /\ pc = "commit"
  /\ pc' = "idle"
  /\ rLines' = lines
  /\ rActive' = activeLineIndex
  /\ last' = NoEvent
  /\ IF HasTextarea
     THEN LET len == Len(lineAt(lines, activeLineIndex))
          IN IF effectRuns(activeLineIndex) /\ cursorPositionRef # null
             THEN /\ caret' = Min(cursorPositionRef, len)
                  /\ cursorPositionRef' = null
             ELSE /\ cursorPositionRef' = cursorPositionRef
                  /\ IF rActive # activeLineIndex
                        \/ activeLineIndex >= Len(rLines)
                     THEN caret' \in {0, len}
                     ELSE IF lineAt(rLines, activeLineIndex)
                             # lineAt(lines, activeLineIndex)
                     THEN caret' = len
                     ELSE caret' = caret
     ELSE /\ caret' = null
          /\ cursorPositionRef' = cursorPositionRef
  /\ rDirty' = isDirty
  /\ debounceTimer' = IF debounceEffectRuns
                      THEN isDirty \/ clearTimeout(debounceTimer)
                      ELSE debounceTimer
  /\ UNCHANGED <<value, lines, activeLineIndex, isDirty, timers, steps,
                 readOnly, ptr>>

----------------------------------------------------------------------------
(* The pointer: the capture handlers of the content container *)

\* Where a pointer event lands: in the active line's textarea at source
\* offset off, in the rendered content (data-role="line-content") of the
\* inactive line j at display offset off, or in the container outside
\* every textarea and every line content (the gap between two lines, a
\* list line's bullet).
Target(kind, j, off) == [kind |-> kind, j |-> j, off |-> off]

PointerTargets ==
  LET offsets == 0..(Len(join(lines)) + 1)
  IN {Target("content", j, off) :
        j \in (0..(Len(lines) - 1)) \ {activeLineIndex}, off \in offsets}
       \cup {Target("textarea", activeLineIndex, off) : off \in offsets}
       \cup {Target("outside", null, null)}

\* The targets the render has: a line content and its display offsets, the
\* textarea when there is one and its source offsets.
targetExists(t) ==
  \/ t.kind = "outside"
  \/ t.kind = "content" /\ t.off <= renderedLength(lineAt(lines, t.j))
  \/ /\ t.kind = "textarea"
     /\ HasTextarea
     /\ t.off <= Len(lineAt(lines, activeLineIndex))

\* The window's selection s has no text.
isCollapsed(s) == s = <<>> \/ (s[1] = s[3] /\ s[2] = s[4])

\* The text nodes of line k's wrapper: the bullet of a list line and, for
\* an inactive line, the rendered content (a textarea has no text node).
bulletLength(k) ==
  IF getMarkdownType(lineAt(lines, k)) = "li" THEN 1 ELSE 0

contentLength(k) ==
  IF k = activeLineIndex THEN 0 ELSE renderedLength(lineAt(lines, k))

\* The length of the text from the start of line j's content to the start
\* of line a's content, a being a later line.
RECURSIVE textBetween(_, _)
textBetween(j, a) ==
  IF a <= j THEN 0
  ELSE textBetween(j, a - 1)
         + contentLength(a - 1) + bulletLength(a)

\* The offset of the anchor taken at mouse down in line j's content (lines
\* 808-821): the length of the range from the start of the content to the
\* anchor of the selection the window has then, 0 when it has none; setEnd
\* to a point before the content collapses the range.
anchorOffset(j) ==
  IF ptr.sel = <<>> THEN 0
  ELSE LET a == ptr.sel[1]
           o == IF a = activeLineIndex THEN 0 ELSE ptr.sel[2]
       IN IF a < j THEN 0 ELSE textBetween(j, a) + o

\* setSelectionFromDisplayPoints: the selection the window has afterwards,
\* sel being the one it had.  A line without a content element (the active
\* one) leaves sel; resolvePoint clamps an offset to the content's text.
setSelectionFromDisplayPoints(sel, startIdx, startOff, endIdx, endOff) ==
  IF \/ startIdx = activeLineIndex \/ startIdx >= Len(lines)
     \/ endIdx = activeLineIndex \/ endIdx >= Len(lines)
  THEN sel
  ELSE <<startIdx, Min(startOff, contentLength(startIdx)),
         endIdx, Min(endOff, contentLength(endIdx))>>

\* onMouseDownCapture (lines 791-826) and what the browser does with the
\* button press: it puts the caret where the pointer is, in the textarea or
\* as a collapsed selection in the line content, and drops the selection
\* when the press lands elsewhere.
MouseDown ==
  /\ pc = "idle"
  /\ steps < MaxSteps
  /\ ~ptr.down
  /\ \E t \in PointerTargets :
       /\ targetExists(t)
       /\ activeLineIndex'
            = IF ~readOnly /\ t.kind = "outside" THEN null
              ELSE activeLineIndex
       /\ ptr' = [isSelecting |-> ~readOnly \/ ptr.isSelecting,
                  dragging |-> IF readOnly THEN ptr.dragging
                               ELSE t.kind = "textarea",
                  bridging |-> readOnly /\ ptr.bridging,
                  anchor |-> IF readOnly THEN ptr.anchor
                             ELSE IF t.kind = "content"
                             THEN <<t.j, anchorOffset(t.j)>>
                             ELSE <<>>,
                  sel |-> IF t.kind = "content"
                          THEN <<t.j, t.off, t.j, t.off>>
                          ELSE <<>>,
                  down |-> TRUE,
                  moved |-> t.kind = "textarea" /\ t.off # caret]
       /\ caret' = IF t.kind = "textarea" THEN t.off ELSE caret
       /\ last' = [Event("mouseDown", "", FALSE, activeLineIndex, caret,
                         <<>>, <<>>, DefaultOptions)
                     EXCEPT !.target = t]
  /\ steps' = steps + 1
  /\ pc' = "commit"
  /\ UNCHANGED <<value, lines, isDirty, cursorPositionRef, timers, rLines,
                 rActive, rDirty, readOnly, debounceTimer>>

\* onMouseMoveCapture (lines 827-849) for a move over t; the button is held
\* when ptr.down.  A drag that started in a line content extends the
\* window's selection to the pointer; one that started in the textarea
\* selects inside the textarea only.
MouseMove ==
  /\ pc = "idle"
  /\ \E t \in PointerTargets :
       /\ targetExists(t)
       /\ LET bridge == /\ ~readOnly
                        /\ ptr.isSelecting
                        /\ ptr.dragging
                        /\ t.kind # "textarea"
                        /\ ptr.down
              install == /\ bridge
                         /\ ptr.anchor # <<>>
                         /\ t.kind = "content"
              native == IF /\ ptr.down
                           /\ ptr.sel # <<>>
                           /\ t.kind = "content"
                        THEN <<ptr.sel[1], ptr.sel[2], t.j, t.off>>
                        ELSE ptr.sel
          IN /\ activeLineIndex' = IF bridge THEN null ELSE activeLineIndex
             /\ ptr' = [ptr EXCEPT
                          !.sel = IF install
                                  THEN setSelectionFromDisplayPoints(
                                         native, ptr.anchor[1], ptr.anchor[2],
                                         t.j, t.off)
                                  ELSE native,
                          !.bridging = install \/ ptr.bridging,
                          !.dragging = ~bridge /\ ptr.dragging]
       /\ last' = [Event("mouseMove", "", FALSE, activeLineIndex, caret,
                         <<>>, <<>>, DefaultOptions)
                     EXCEPT !.target = t]
  /\ pc' = "commit"
  /\ UNCHANGED <<value, lines, isDirty, cursorPositionRef, caret, timers,
                 rLines, rActive, rDirty, steps, readOnly, debounceTimer>>

\* The button is released over t, or outside the editor (t.kind is
\* "window"): the line content's onMouseUp (lines 343-354), then the
\* container's (lines 850-871), then the textarea's onSelect (lines 314-319)
\* when its caret moved, then the window's mouseup listener (lines 404-410).
MouseUp ==
  /\ pc = "idle"
  /\ ptr.down
  /\ \E t \in PointerTargets \cup {Target("window", null, null)} :
       /\ t.kind = "window" \/ targetExists(t)
       /\ LET clickLike == t.kind = "content" /\ isCollapsed(ptr.sel)
              bridged == ~readOnly /\ ptr.bridging /\ clickLike
              selected == t.kind # "window" /\ ptr.moved /\ HasTextarea
          IN /\ clickLike => Len(timers) < MaxTimers
             /\ cursorPositionRef'
                  = IF selected THEN caret
                    ELSE IF clickLike
                    THEN mapDisplayOffsetToSourceIndex(lineAt(lines, t.j),
                                                       t.off)
                    ELSE cursorPositionRef
             /\ timers' = IF clickLike THEN Append(timers, t.j) ELSE timers
             /\ activeLineIndex' = IF bridged THEN t.j ELSE activeLineIndex
             /\ ptr' = IF t.kind = "window" \/ readOnly
                       THEN [ptr EXCEPT !.isSelecting = FALSE,
                                        !.down = FALSE, !.moved = FALSE]
                       ELSE [NoPointer EXCEPT !.sel = ptr.sel]
       /\ last' = [Event("mouseUp", "", FALSE, activeLineIndex, caret,
                         <<>>, <<>>, DefaultOptions)
                     EXCEPT !.target = t]
  /\ pc' = "commit"
  /\ UNCHANGED <<value, lines, isDirty, caret, rLines, rActive, rDirty,
                 steps, readOnly, debounceTimer>>

\* The calls an interceptor makes on the document ls.
ApiTexts == {<<>>, <<"x", "\n", "y">>}

\* The keys and clipboard texts of the events an interceptor lets through.
ExtKeys == {"Enter", "Backspace"}

ExtPasteTexts == {<<"x", "\n", "y", "\n", "z">>, <<"x", "y">>}

ApiCalls(ls) ==
  {ApiCall("setValue", null, null, s) : s \in ApiTexts}
    \cup {ApiCall("setLine", i, null, <<"x">>) : i \in 0..Len(ls)}
    \cup {ApiCall("insertLine", i, null, <<"x">>) : i \in 0..Len(ls)}
    \cup {ApiCall("deleteLines", i, n, <<>>) :
            i \in 0..(Len(ls) - 1), n \in {1, Len(ls)}}
    \cup {ApiCall("setActiveLineIndex", i, 0, <<>>) : i \in 0..(Len(ls) - 1)}
    \cup {ApiCall("setActiveLineIndex", null, null, <<>>)}

\* A key pressed in the active line's textarea of an editor that has an
\* extension: its onKeyDown makes a call of the API and either reports the
\* event handled (handleKeyDown returns) or lets it through to the built-in
\* part.
ExtKeyDown ==
  /\ pc = "idle"
  /\ steps < MaxSteps
  /\ HasTextarea
  /\ \E call \in ApiCalls(lines) :
       \/ /\ Apply(apiCall(call, lines),
                   [Event("extKey", "", FALSE, activeLineIndex, caret, <<>>,
                          <<>>, DefaultOptions) EXCEPT !.call = call])
          /\ caret' = caret
       \/ \E key \in ExtKeys : keyDownEvent(key, FALSE, DefaultOptions, call)

\* The same for a paste and the extension's onPaste.
ExtPaste ==
  /\ pc = "idle"
  /\ steps < MaxSteps
  /\ HasTextarea
  /\ \E call \in ApiCalls(lines) :
       \/ /\ Apply(apiCall(call, lines),
                   [Event("extPaste", "", FALSE, activeLineIndex, caret, <<>>,
                          <<>>, DefaultOptions) EXCEPT !.call = call])
          /\ caret' = caret
       \/ \E text \in ExtPasteTexts :
            pasteEvent(text, FALSE, DefaultOptions, call)

\* The editor's extensions prop: each extension has an interceptor or none
\* (hook), and an interceptor makes one call of the API and reports the
\* event handled or not.
MaxExts == 2

ExtCalls ==
  {NoCall, ApiCall("insertLine", 0, null, <<"x">>),
   ApiCall("setActiveLineIndex", null, null, <<>>)}

Extensions ==
  {[hook |-> FALSE, call |-> NoCall, handled |-> FALSE]}
    \cup [hook : {TRUE}, call : ExtCalls, handled : BOOLEAN]

ExtLists == UNION {[1..n -> Extensions] : n \in 0..MaxExts}

\* The call of an interceptor on top of r, what the interceptors before it
\* left: the setLines updaters queue up, setActiveLineIndex and the pending
\* caret are overwritten.
apiCallOn(call, r) ==
  IF call.api = "setActiveLineIndex"
  THEN [r EXCEPT !.active = call.i,
                 !.cursor = IF call.n # null THEN call.n ELSE r.cursor]
  ELSE [r EXCEPT !.lines = apiCall(call, r.lines).lines]

\* A variant of returnsHandled that never returns.
returnsHandled_never(handled) == FALSE

\* if (handled) return (lines 525, 570).
returnsHandled(handled) == handled

\* The loop over the extensions (lines 514-526, 559-571) from the k-th on;
\* st holds what the interceptors left so far (left), the indexes of the
\* extensions whose interceptor was called (called) and whether the
\* handler has returned (returned).
RECURSIVE interceptors(_, _, _)
interceptors(exts, k, st) ==
  IF k > Len(exts) THEN st
  ELSE IF ~exts[k].hook THEN interceptors(exts, k + 1, st)
  ELSE LET st1 == [left |-> apiCallOn(exts[k].call, st.left),
                   called |-> Append(st.called, k),
                   returned |-> returnsHandled(exts[k].handled)]
       IN IF st1.returned THEN st1 ELSE interceptors(exts, k + 1, st1)

\* The loop's result on the current state.
interceptorsRun(exts) ==
  interceptors(exts, 1, [left |-> Untouched(lines), called |-> <<>>,
                         returned |-> FALSE])

\* The event record of a key or paste event of an editor with extensions.
extsEvent(ev, exts) ==
  LET st == interceptorsRun(exts)
  IN [ev EXCEPT !.exts = exts, !.called = st.called,
                !.builtin = ~st.returned, !.left = st.left]

\* A key pressed in the active line's textarea of an editor with a list of
\* extensions.
ExtsKeyDown ==
  /\ pc = "idle"
  /\ steps < MaxSteps
  /\ HasTextarea
  /\ \E exts \in ExtLists, key \in ExtKeys :
       LET st == interceptorsRun(exts)
           ev == extsEvent(Event("extsKey", key, FALSE, activeLineIndex,
                                 caret, <<>>, <<>>, DefaultOptions), exts)
       IN IF st.returned
          THEN Apply(st.left, ev) /\ caret' = caret
          ELSE keyDownThrough(key, FALSE, DefaultOptions, st.left, ev)

\* The same for a paste.
ExtsPaste ==
  /\ pc = "idle"
  /\ steps < MaxSteps
  /\ HasTextarea
  /\ \E exts \in ExtLists, text \in ExtPasteTexts :
       LET st == interceptorsRun(exts)
           ev == extsEvent(Event("extsPaste", "", FALSE, activeLineIndex,
                                 caret, text, <<>>, DefaultOptions), exts)
       IN IF st.returned
          THEN Apply(st.left, ev) /\ caret' = caret
          ELSE pasteThrough(text, FALSE, DefaultOptions, st.left, ev)

Next ==
  \/ KeyDown
  \/ TypeChar
  \/ Paste
  \/ DeleteSelection
  \/ MoveCaret
  \/ Click
  \/ Deactivate
  \/ SetValue
  \/ Teardown
  \/ TimerFire
  \/ DebounceFire
  \/ Commit

Spec == Init /\ [][Next]_vars

\* The editor with an extension registered.
NextExt ==
  \/ ExtKeyDown
  \/ ExtPaste
  \/ KeyDown
  \/ Click
  \/ MoveCaret
  \/ SetValue
  \/ TimerFire
  \/ DebounceFire
  \/ Commit

SpecExt == Init /\ [][NextExt]_vars

\* The editor with a list of extensions registered.
NextExts ==
  \/ ExtsKeyDown
  \/ ExtsPaste
  \/ Click
  \/ TimerFire
  \/ DebounceFire
  \/ Commit

SpecExts == Init /\ [][NextExts]_vars

\* Single lines for the functions of one line: every string of up to
\* MaxShort characters over ShortChars, and every LinePrefixes prefix
\* followed by up to MaxBody characters of BodyChars.
MaxShort == 4

MaxBody == 4

\* How far past the display content of a line a display offset goes.
MaxBeyond == 2

ShortChars == {"#", " ", "*", "a", "-", ">"}

BodyChars == {"*", "a"}

LinePrefixes ==
  { <<>>,
    <<"#", " ">>,
    <<"#", "#", "#", "#", "#", " ">>,
    <<"-", " ", "[", " ", "]", " ">>,
    <<"*", " ", "[", "x", "]", " ">>,
    <<" ", "-", " ", "[", "X", "]", " ">>,
    <<"-", " ", "[", "x", "]">>,
    <<"-", " ", "[", " ", "]", " ", "[", "x", "]">>,
    <<" ", " ", "-", " ">>,
    <<"*", "\t">>,
    <<"1", "2", ".", " ">>,
    <<" ", "9", ".", " ">>,
    <<"0", "7", ".", " ">>,
    <<"1", ".">>,
    <<">", " ">>,
    <<" ", ">", " ">>,
    <<"#", " ", "-", " ">>,
    <<"-", " ", ">", " ">>,
    <<">", " ", "1", ".", " ">> }

LineInputs ==
  UNION {[1..n -> ShortChars] : n \in 0..MaxShort}
    \cup {pre \o body : pre \in LinePrefixes,
                        body \in UNION {[1..n -> BodyChars] : n \in 0..MaxBody}}

\* An editor whose Document is one line of LineInputs.
InitLines ==
  /\ value \in LineInputs
  /\ lines = <<value>>
  /\ activeLineIndex = null
  /\ isDirty = FALSE
  /\ cursorPositionRef = null
  /\ caret = null
  /\ timers = <<>>
  /\ rLines = lines
  /\ rActive = null
  /\ rDirty = FALSE
  /\ pc = "idle"
  /\ last = NoEvent
  /\ steps = 0
  /\ debounceTimer = FALSE
  /\ ptr = NoPointer
  /\ readOnly = FALSE

\* mapDisplayOffsetToSourceIndex(lines[j], d) for a display offset d within
\* the display content of the line; the result becomes the pending caret,
\* as where a pointer position or a selection endpoint is resolved.
MapOffset ==
  /\ pc = "idle"
  /\ steps < MaxSteps
  /\ \E j \in 0..(Len(lines) - 1) :
       \E d \in 0..getDisplayContentLength(lineAt(lines, j)) :
         /\ cursorPositionRef'
              = mapDisplayOffsetToSourceIndex(lineAt(lines, j), d)
         /\ last' = [Event("map", "", FALSE, j, caret, <<>>, <<>>,
                           DefaultOptions)
                       EXCEPT !.line = lineAt(lines, j), !.offset = d]
  /\ steps' = steps + 1
  /\ UNCHANGED <<value, lines, activeLineIndex, isDirty, caret, timers,
                 rLines, rActive, rDirty, pc, readOnly, debounceTimer, ptr>>

\* The same for a display offset d past getDisplayContentLength(lines[j]),
\* as a pointer position past the end of the text gives.
MapBeyond ==
  /\ pc = "idle"
  /\ steps < MaxSteps
  /\ \E j \in 0..(Len(lines) - 1) :
       \E over \in 1..MaxBeyond :
         LET d == getDisplayContentLength(lineAt(lines, j)) + over
         IN /\ cursorPositionRef'
                 = mapDisplayOffsetToSourceIndex(lineAt(lines, j), d)
            /\ last' = [Event("mapBeyond", "", FALSE, j, caret, <<>>, <<>>,
                              DefaultOptions)
                          EXCEPT !.line = lineAt(lines, j), !.offset = d]
  /\ steps' = steps + 1
  /\ UNCHANGED <<value, lines, activeLineIndex, isDirty, caret, timers,
                 rLines, rActive, rDirty, pc, readOnly, debounceTimer, ptr>>

\* getMarkdownType(lines[j]), as a render of the line computes it.
Classify ==
  /\ pc = "idle"
  /\ steps < MaxSteps
  /\ \E j \in 0..(Len(lines) - 1) :
       last' = [Event("classify", "", FALSE, j, caret, <<>>, <<>>,
                      DefaultOptions)
                  EXCEPT !.line = lineAt(lines, j),
                         !.type = getMarkdownType(lineAt(lines, j))]
  /\ steps' = steps + 1
  /\ UNCHANGED <<value, lines, activeLineIndex, isDirty, cursorPositionRef,
                 caret, timers, rLines, rActive, rDirty, pc, readOnly,
                 debounceTimer, ptr>>

\* getListMeta(lines[j]), as handleKeyDown computes it for the active line.
ListMeta ==
  /\ pc = "idle"
  /\ steps < MaxSteps
  /\ \E j \in 0..(Len(lines) - 1) :
       last' = [Event("meta", "", FALSE, j, caret, <<>>, <<>>, DefaultOptions)
                  EXCEPT !.line = lineAt(lines, j),
                         !.meta = getListMeta(lineAt(lines, j))]
  /\ steps' = steps + 1
  /\ UNCHANGED <<value, lines, activeLineIndex, isDirty, cursorPositionRef,
                 caret, timers, rLines, rActive, rDirty, pc, readOnly,
                 debounceTimer, ptr>>

\* getDisplayContentLength(lines[j]), as deleteCurrentSelection computes it
\* to tell whether a selection ends at the end of the line.
DisplayLength ==
  /\ pc = "idle"
  /\ steps < MaxSteps
  /\ \E j \in 0..(Len(lines) - 1) :
       last' = [Event("length", "", FALSE, j, caret, <<>>, <<>>,
                      DefaultOptions)
                  EXCEPT !.line = lineAt(lines, j),
                         !.offset = getDisplayContentLength(lineAt(lines, j))]
  /\ steps' = steps + 1
  /\ UNCHANGED <<value, lines, activeLineIndex, isDirty, cursorPositionRef,
                 caret, timers, rLines, rActive, rDirty, pc, readOnly,
                 debounceTimer, ptr>>

\* The three prefix analyses of lines[j]: getMarkdownType as the render of
\* the line computes it, getListMeta as handleKeyDown does and
\* getRemovedPrefixLength as the offset mapper does.
PrefixAnalyses ==
  /\ pc = "idle"
  /\ steps < MaxSteps
  /\ \E j \in 0..(Len(lines) - 1) :
       last' = [Event("analyses", "", FALSE, j, caret, <<>>, <<>>,
                      DefaultOptions)
                  EXCEPT !.line = lineAt(lines, j),
                         !.type = getMarkdownType(lineAt(lines, j)),
                         !.meta = getListMeta(lineAt(lines, j)),
                         !.offset = getRemovedPrefixLength(lineAt(lines, j))]
  /\ steps' = steps + 1
  /\ UNCHANGED <<value, lines, activeLineIndex, isDirty, cursorPositionRef,
                 caret, timers, rLines, rActive, rDirty, pc, readOnly,
                 debounceTimer, ptr>>

NextLines ==
  \/ MapOffset
  \/ Classify
  \/ ListMeta
  \/ DisplayLength
  \/ MapBeyond
  \/ PrefixAnalyses

SpecLines == InitLines /\ [][NextLines]_vars

\* The editor under the pointer: presses, moves and releases of the primary
\* button, the deferred activations and the renders.
NextPointer ==
  \/ MouseDown
  \/ MouseMove
  \/ MouseUp
  \/ TimerFire
  \/ Commit

SpecPointer == Init /\ [][NextPointer]_vars

\* Controlled use (the README's quick start: value={value} and
\* onChange={setValue}): the handler before this render called onChange
\* with a string that is not the value prop, so the host renders the editor
\* with that string as value.
echoDue ==
  /\ pc = "commit"
  /\ last.onChange # <<>>
  /\ last.onChange[1] # value

\* The render with the value the host feeds back: the effect on [value]
\* (lines 389-392) splits it into lines and clears isDirty; the render these
\* two updates cause is the Commit that follows.
HostEcho ==
  /\ echoDue
  /\ value' = last.onChange[1]
  /\ lines' = valueLines(last.onChange[1])
  /\ isDirty' = FALSE
  /\ last' = [last EXCEPT !.op = "echo"]
  /\ UNCHANGED <<activeLineIndex, cursorPositionRef, caret, timers, rLines,
                 rActive, rDirty, pc, steps, readOnly, debounceTimer, ptr>>

\* React renders and runs the effects, the host having no value to feed
\* back.
Render == ~echoDue /\ Commit

\* The editor in controlled use.
NextControlled ==
  \/ TypeChar
  \/ KeyDown
  \/ HostEcho
  \/ Render
  \/ Click
  \/ TimerFire
  \/ DebounceFire

SpecControlled == Init /\ [][NextControlled]_vars

\* The editor while the pointer selects: presses and releases of the
\* primary button and the keys pressed in between.
NextSelecting ==
  \/ MouseDown
  \/ MouseUp
  \/ KeyDown
  \/ TimerFire
  \/ DebounceFire
  \/ Commit

SpecSelecting == Init /\ [][NextSelecting]_vars

\* The editor with either value of the readOnly prop.
SpecReadOnly == InitReadOnly /\ [][Next]_vars

----------------------------------------------------------------------------
(* Properties.  A handler leaves pc = "commit" with last telling the event *)
(* it handled and, in last.pre, the Document it found; lines, the pending  *)
(* caret and the deferred activations are then what the handler left.      *)

\* The handler deferred the activation of line i: it is the newest timer.
ActivationDeferred(i) == timers # <<>> /\ timers[Len(timers)] = i

\* Line i of the Document the last event found (i counts from 0).
preLine(i) == last.pre[i + 1]

\* The lines of the Document outside the 0-based range from..to are those
\* the last event found, the ones after it moved by shift.
RestUnchanged(from, to, shift) ==
  /\ \A j \in 0..(from - 1) : lineAt(lines, j) = preLine(j)
  /\ \A j \in (to + 1)..(Len(last.pre) - 1) :
       lineAt(lines, j + shift) = preLine(j)

\* The line is a list, ordered-list, task or blockquote line.
IsListLine(line) == getMarkdownType(line) \in {"li", "blockquote"}

\* The last event is the key, handled by the built-in part alone.
KeyHandled(key) ==
  last.op = "key" /\ last.key = key /\ ~last.shift /\ last.call = NoCall

\* The last event is a selection deletion that covers the whole visible
\* content of the only line of the Document.
C1_WholeOnlyLineDeleted ==
  /\ last.op = "deleteSelection"
  /\ Len(last.pre) = 1
  /\ last.sel[2] = 0
  /\ last.sel[4] = getDisplayContentLength(preLine(0))

\* C1: after any sequence of built-in operations the Document has at least
\* one line, and a selection deletion that covers the whole visible content
\* of the only line leaves exactly one empty line.
C1_DocumentNeverEmpty ==
  /\ Len(lines) >= 1
  /\ C1_WholeOnlyLineDeleted => lines = << <<>> >>

C1_Witness ==
  /\ C1_WholeOnlyLineDeleted
  /\ Len(preLine(0)) > 0
  /\ lines = << <<>> >>

\* C2: a deletion made through the extension edit API never empties the
\* Document: after deleteLines or setValue the Document has at least one
\* line, and it is one empty line when deleteLines removed every line.
C2_ExtensionDeletionKeepsALine ==
  last.call.api \in {"deleteLines", "setValue"} =>
    /\ Len(lines) >= 1
    /\ ( /\ last.op \in {"extKey", "extPaste"}
         /\ last.call.api = "deleteLines"
         /\ last.call.i = 0
         /\ last.call.n >= Len(last.pre) ) => lines = << <<>> >>

\* C3: in every reachable state the active-line index is null or an index
\* of the current Document.
C3_ActiveIndexValid ==
  activeLineIndex = null
    \/ (activeLineIndex >= 0 /\ activeLineIndex < Len(lines))

\* The last event is Enter outside the list-terminating branch.
C4_EnterOutsideTermination ==
  KeyHandled("Enter") /\ ~enterTerminates(preLine(last.idx), last.caret)

\* C4: Enter at caret c of line i outside the list-termination case makes
\* line i the text before c and inserts one line at i + 1: nextMarker and
\* the text after c, with pending caret the length of nextMarker, when line
\* i is a list, task or quote line and continuation is enabled, otherwise
\* the text after c with pending caret 0; the activation of line i + 1 is
\* deferred and no other line changes.
C4_EnterSplits ==
  C4_EnterOutsideTermination =>
    LET i == last.idx
        c == last.caret
        line == preLine(i)
        marker == IF IsListLine(line) /\ last.options.continueListsOnEnter
                  THEN getListMeta(line).nextMarker
                  ELSE <<>>
    IN /\ Len(lines) = Len(last.pre) + 1
       /\ lineAt(lines, i) = SubSeq(line, 1, c)
       /\ lineAt(lines, i + 1) = marker \o SubSeq(line, c + 1, Len(line))
       /\ RestUnchanged(i, i, 1)
       /\ cursorPositionRef = Len(marker)
       /\ ActivationDeferred(i + 1)

C4_Witness ==
  /\ C4_EnterOutsideTermination
  /\ IsListLine(preLine(last.idx))
  /\ last.options.continueListsOnEnter
  /\ last.caret < Len(preLine(last.idx))
  /\ Len(lines) = Len(last.pre) + 1
  /\ cursorPositionRef > 0

\* The structural marker the line starts with, and what follows it.
markerLength(line) == getRemovedPrefixLength(line)

contentAfterMarker(line) == sliceFrom(line, markerLength(line))

\* C5: Enter on a list, ordered-list, task or blockquote line whose content
\* after the marker is blank, with the caret at or past the marker, leaves
\* the line as its indentation alone, the Document as long as it was, the
\* same line to be activated and the pending caret at the length of the
\* indentation.
C5_EnterTerminatesBlankItem ==
  ( /\ KeyHandled("Enter")
    /\ IsListLine(preLine(last.idx))
    /\ IsBlank(contentAfterMarker(preLine(last.idx)))
    /\ last.caret >= markerLength(preLine(last.idx)) ) =>
    LET i == last.idx
        indent == SubSeq(preLine(i), 1, wsRun(preLine(i)))
    IN /\ Len(lines) = Len(last.pre)
       /\ lineAt(lines, i) = indent
       /\ RestUnchanged(i, i, 0)
       /\ cursorPositionRef = Len(indent)
       /\ ActivationDeferred(i)

\* The second Enter of the scenario of C6: the Document began as the one
\* line "1. a"; a click put the caret at its end, Enter made the lines
\* "1. a" and "2. " and left the pending caret 3, at which the second Enter
\* is pressed on the line the first one activated.
C6_SecondEnter ==
  /\ KeyHandled("Enter")
  /\ last.options.continueListsOnEnter
  /\ value = DocOl
  /\ steps = 3
  /\ last.pre = << <<"1", ".", " ", "a">>, <<"2", ".", " ">> >>
  /\ last.idx = 1
  /\ last.caret = 3

\* C6 as the spec has it: pressing Enter twice at the end of "1. a" yields
\* the lines "1. a", "2. ", "3. ".
C6_EnterTwiceNumbers ==
  C6_SecondEnter =>
    lines = << <<"1", ".", " ", "a">>, <<"2", ".", " ">>, <<"3", ".", " ">> >>

\* C6, amended: the second Enter finds the blank item "2. ", so it ends the
\* list: the lines are "1. a" and an empty line, which is to be activated
\* with pending caret 0.
C6_SecondEnterTerminates ==
  C6_SecondEnter =>
    /\ lines = << <<"1", ".", " ", "a">>, <<>> >>
    /\ cursorPositionRef = 0
    /\ ActivationDeferred(1)

C6_Witness ==
  /\ C6_SecondEnter
  /\ Len(lines) = 2
  /\ lineAt(lines, 1) = <<>>

\* The last event is Backspace with the caret at the start of a line that
\* is not the first.
C7_BackspaceAtStart ==
  KeyHandled("Backspace") /\ last.caret = 0 /\ last.idx > 0

\* C7: Backspace at source offset 0 of line i > 0 appends line i to line
\* i - 1 and removes line i: the Document is one line shorter, the
\* activation of line i - 1 is deferred and the pending caret is the length
\* line i - 1 had; this holds for a list or quote line i as well.
C7_BackspaceMerges ==
  C7_BackspaceAtStart =>
    LET i == last.idx
    IN /\ Len(lines) = Len(last.pre) - 1
       /\ lineAt(lines, i - 1) = preLine(i - 1) \o preLine(i)
       /\ RestUnchanged(i - 1, i, -1)
       /\ cursorPositionRef = Len(preLine(i - 1))
       /\ ActivationDeferred(i - 1)

C7_Witness ==
  /\ C7_BackspaceAtStart
  /\ IsListLine(preLine(last.idx))
  /\ Len(preLine(last.idx - 1)) > 0
  /\ Len(lines) = Len(last.pre) - 1

\* C8: Backspace on a list, quote or task line with the caret at or before
\* the end of its marker, outside the merge case, removes exactly the
\* marker: the line becomes the content that followed it, the Document is
\* as long as it was, the same line is to be activated and the pending
\* caret is 0.
C8_BackspaceStripsMarker ==
  ( /\ KeyHandled("Backspace")
    /\ ~(last.caret = 0 /\ last.idx > 0)
    /\ IsListLine(preLine(last.idx))
    /\ last.caret <= markerLength(preLine(last.idx)) ) =>
    LET i == last.idx
    IN /\ Len(lines) = Len(last.pre)
       /\ lineAt(lines, i) = contentAfterMarker(preLine(i))
       /\ RestUnchanged(i, i, 0)
       /\ cursorPositionRef = 0
       /\ ActivationDeferred(i)

\* The segments between the line breaks of each clipboard text, a CRLF
\* being one break.
C9_Segments(text) ==
  CASE text = <<"x", "\n", "y", "\n", "z">> -> << <<"x">>, <<"y">>, <<"z">> >>
    [] text = <<"p", "\r", "\n", "q">> -> << <<"p">>, <<"q">> >>
    [] text = <<"\n">> -> << <<>>, <<>> >>
    [] OTHER -> <<text>>

\* The last event is a paste of at least two segments with splitting
\* enabled and no multi-line selection.
C9_MultiLinePaste ==
  /\ last.op = "paste"
  /\ last.call = NoCall
  /\ last.key # "multiSel"
  /\ last.options.pasteSplitLines
  /\ Len(C9_Segments(last.text)) >= 2

\* C9: pasting k >= 2 segments s1..sk at caret c of line i replaces line i
\* by line[0..c) + s1, s2, ..., s(k-1), sk + line[c..): the Document grows
\* by k - 1 lines, the activation of line i + k - 1 is deferred and the
\* pending caret is the length of sk.
C9_PasteSplits ==
  C9_MultiLinePaste =>
    LET i == last.idx
        c == last.caret
        line == preLine(i)
        segs == C9_Segments(last.text)
        k == Len(segs)
    IN /\ Len(lines) = Len(last.pre) + k - 1
       /\ lineAt(lines, i) = SubSeq(line, 1, c) \o segs[1]
       /\ \A m \in 2..(k - 1) : lineAt(lines, i + m - 1) = segs[m]
       /\ lineAt(lines, i + k - 1) = segs[k] \o SubSeq(line, c + 1, Len(line))
       /\ RestUnchanged(i, i, k - 1)
       /\ cursorPositionRef = Len(segs[k])
       /\ ActivationDeferred(i + k - 1)

\* The example of C9: x, y, z pasted at caret 1 of "ab".
C9_Witness ==
  /\ C9_MultiLinePaste
  /\ last.pre = << <<"a", "b">> >>
  /\ last.caret = 1
  /\ last.text = <<"x", "\n", "y", "\n", "z">>
  /\ lines = << <<"a", "x">>, <<"y">>, <<"z", "b">> >>
  /\ cursorPositionRef = 1
  /\ ActivationDeferred(2)

\* The last event is a selection deletion whose endpoints lie on different
\* lines.
C10_MultiLineDeletion ==
  last.op = "deleteSelection" /\ last.sel[1] < last.sel[3]

\* The selection runs from display offset 0 of its start line to the full
\* visible length of its end line.
C10_FullRange ==
  /\ last.sel[2] = 0
  /\ last.sel[4] = getDisplayContentLength(preLine(last.sel[3]))

\* C10: a selection deletion with endpoints on lines startIdx < endIdx puts
\* one merged line, a head of the start line followed by a tail of the end
\* line, in place of the lines startIdx..endIdx: the Document is
\* endIdx - startIdx lines shorter, and the merged line is empty when the
\* selection runs from display offset 0 to the full visible length of the
\* end line.
C10_SelectionMergesRange ==
  C10_MultiLineDeletion =>
    LET startIdx == last.sel[1]
        endIdx == last.sel[3]
        startLine == preLine(startIdx)
        endLine == preLine(endIdx)
        merged == lineAt(lines, startIdx)
    IN /\ Len(lines) = Len(last.pre) - (endIdx - startIdx)
       /\ \E h \in 0..Len(startLine), t \in 0..Len(endLine) :
            merged = SubSeq(startLine, 1, h) \o SubSeq(endLine, t + 1, Len(endLine))
       /\ RestUnchanged(startIdx, endIdx, startIdx - endIdx)
       /\ C10_FullRange => merged = <<>>

C10_Witness ==
  /\ C10_MultiLineDeletion
  /\ C10_FullRange
  /\ last.sel[3] - last.sel[1] = 2
  /\ lines = << <<>> >>

\* The last event is a selection deletion with both endpoints on one line.
C11_SameLineDeletion ==
  last.op = "deleteSelection" /\ last.sel[1] = last.sel[3]

\* C11: a selection deletion with both endpoints on line L, at display
\* offsets s <= e, removes the line when s = 0 and e is the full visible
\* length of L; otherwise the Document keeps its length and L becomes
\* L[0..src(s)) + L[src(e)..], src being the display-to-source mapping on L,
\* so that only the characters between the mapped offsets are removed.
C11_SameLineSplice ==
  C11_SameLineDeletion =>
    LET idx == last.sel[1]
        L == preLine(idx)
        s == last.sel[2]
        e == last.sel[4]
    IN IF s = 0 /\ e = getDisplayContentLength(L)
       THEN IF Len(last.pre) = 1 THEN lines = << <<>> >>
            ELSE Len(lines) = Len(last.pre) - 1 /\ RestUnchanged(idx, idx, -1)
       ELSE /\ Len(lines) = Len(last.pre)
            /\ lineAt(lines, idx)
                 = SubSeq(L, 1, mapDisplayOffsetToSourceIndex(L, s))
                   \o SubSeq(L, mapDisplayOffsetToSourceIndex(L, e) + 1, Len(L))
            /\ RestUnchanged(idx, idx, 0)

\* C12: after a selection deletion the active line is the start line of the
\* selection and the pending caret, the offset at which that line was cut,
\* is not greater than the length the line has now (stated for the
\* deletions that leave a line at the start index).
C12_CaretAtCut ==
  (last.op = "deleteSelection" /\ last.sel[1] < Len(lines)) =>
    /\ activeLineIndex = last.sel[1]
    /\ cursorPositionRef <= Len(lineAt(lines, last.sel[1]))

\* C11 (amended): a selection deletion with both endpoints on line L, at
\* display offsets s <= e, removes the line when s = 0 and e is the full
\* visible length of L; otherwise the Document keeps its length and L
\* becomes L[0..s') + L[e'..], where s' is 0 when s = 0 and src(s)
\* otherwise, and e' is the length of L when e is the full visible length
\* and src(e) otherwise; every other line is unchanged.
C11_SameLineCuts ==
  C11_SameLineDeletion =>
    LET idx == last.sel[1]
        L == preLine(idx)
        s == last.sel[2]
        e == last.sel[4]
        full == getDisplayContentLength(L)
        sCut == IF s = 0 THEN 0 ELSE mapDisplayOffsetToSourceIndex(L, s)
        eCut == IF e = full THEN Len(L)
                ELSE mapDisplayOffsetToSourceIndex(L, e)
    IN IF s = 0 /\ e = full
       THEN IF Len(last.pre) = 1 THEN lines = << <<>> >>
            ELSE Len(lines) = Len(last.pre) - 1 /\ RestUnchanged(idx, idx, -1)
       ELSE /\ Len(lines) = Len(last.pre)
            /\ lineAt(lines, idx) = SubSeq(L, 1, sCut) \o SubSeq(L, eCut + 1, Len(L))
            /\ RestUnchanged(idx, idx, 0)

\* A selection from the visible start of a line that has a structural
\* prefix, ending before the visible end of the line, has been deleted.
C11_Witness ==
  /\ C11_SameLineDeletion
  /\ last.sel[2] = 0
  /\ last.sel[4] < getDisplayContentLength(preLine(last.sel[1]))
  /\ mapDisplayOffsetToSourceIndex(preLine(last.sel[1]), 0) > 0
  /\ Len(lineAt(lines, last.sel[1])) > 0

\* The last event is a user edit (typing, a key, a paste or a selection
\* deletion) that changed the Document.
C13_MutatingOperation ==
  /\ last.op \in {"type", "key", "paste", "deleteSelection"}
  /\ lines # last.pre

\* C13: every mutating operation invokes the immediate-change callback,
\* once and inside the handler, with the Document as it is after the
\* operation joined by line breaks.
C13_OnChangeOnEveryEdit ==
  C13_MutatingOperation => last.onChange = <<join(lines)>>

\* C14: while the editor waits for an event the debounce timer is pending
\* exactly when an edit has not been reported yet, so a quiet period after
\* an edit ends with the timer firing; when it fires, the debounced
\* callback is invoked once, with the join of the Document as it is at that
\* moment, and the timer is not pending again until the next edit.
C14_DebouncedOnce ==
  /\ pc = "idle" => (debounceTimer <=> isDirty)
  /\ last.op = "debounce" =>
       /\ last.onDebouncedChange = <<join(lines)>>
       /\ ~isDirty
       /\ ~debounceTimer

\* The timer fired after two edits and reported a Document that differs
\* from the value prop.
C14_Witness ==
  /\ last.op = "debounce"
  /\ steps >= 2
  /\ last.preDirty
  /\ lines # split(value)
  /\ last.onDebouncedChange = <<join(lines)>>

\* C15: a teardown, and the render that follows a change of the external
\* value, leave no debounce timer pending, and neither invokes the debounced
\* callback; after a teardown the editor handles no event any more.
C15_TimerCancelled ==
  [][/\ last'.op = "teardown" =>
          ~debounceTimer' /\ pc' = "unmounted"
     /\ last.op = "value" => ~debounceTimer'
     /\ last'.op \in {"value", "teardown"} => last'.onDebouncedChange = <<>>
    ]_vars

\* The editor was torn down while its debounce timer was pending.
C15_Witness ==
  /\ last.op = "teardown"
  /\ last.preDirty
  /\ isDirty
  /\ ~debounceTimer

\* C16: when the external value changes to v, whatever edits the Document
\* held, the Document is v cut at its line breaks (no line holds a line
\* break, the empty string gives one empty line), joining it by line breaks
\* gives back v, and the dirty flag is cleared.
C16_ValueResets ==
  last.op = "value" =>
    /\ join(lines) = last.text
    /\ Len(lines) = 1 + Cardinality({j \in 1..Len(last.text) :
                                       last.text[j] = "\n"})
    /\ \A i \in 1..Len(lines) : \A j \in 1..Len(lines[i]) : lines[i][j] # "\n"
    /\ last.text = <<>> => lines = << <<>> >>
    /\ ~isDirty

\* The value changed to a text of several lines while the Document held
\* edits that had not been reported.
C16_Witness ==
  /\ last.op = "value"
  /\ last.preDirty
  /\ last.pre # lines
  /\ Len(lines) > 1

\* The first extension of the last event whose interceptor reported the
\* event handled (0: none).
C17_FirstHandler ==
  LET hs == {k \in 1..Len(last.exts) :
               last.exts[k].hook /\ last.exts[k].handled}
  IN IF hs = {} THEN 0 ELSE CHOOSE k \in hs : \A j \in hs : k <= j

\* C17: on a key or paste event the interceptors are called in registration
\* order, each at most once, before the built-in part; the first one that
\* reports handled is the last one called, and then the built-in part does
\* not run: Document, active line, pending caret, deferred activations and
\* dirty flag are as the interceptors left them.  When none reports
\* handled, every interceptor has been called once and the built-in part
\* runs.
C17_InterceptorOrder ==
  last.op \in {"extsKey", "extsPaste"} =>
    LET h == C17_FirstHandler
        upTo == IF h = 0 THEN Len(last.exts) ELSE h
        n == Len(last.called)
    IN /\ \A a, b \in 1..n : a < b => last.called[a] < last.called[b]
       /\ {last.called[a] : a \in 1..n}
            = {k \in 1..upTo : last.exts[k].hook}
       /\ last.builtin = (h = 0)
       /\ h # 0 =>
            /\ lines = last.left.lines
            /\ activeLineIndex = last.left.active
            /\ cursorPositionRef = last.left.cursor
            /\ isDirty = last.preDirty
            /\ last.onChange = <<>>

\* Enter was pressed in an editor with two extensions; the first one's
\* interceptor changed the Document and let the event through, the
\* second one's reported it handled.
C17_Witness ==
  /\ last.op = "extsKey"
  /\ last.key = "Enter"
  /\ Len(last.exts) = 2
  /\ last.exts[1].hook /\ ~last.exts[1].handled
  /\ last.exts[1].call.api = "insertLine"
  /\ last.exts[2].hook /\ last.exts[2].handled
  /\ last.called = <<1, 2>>
  /\ ~last.builtin
  /\ lines = jsSplice(last.pre, 0, 0, << <<"x">> >>)

\* C18: while the readOnly prop is set no user interaction (typing, a key,
\* a paste, Backspace or Delete on a selection) changes the Document.
C18_ReadOnlyKeepsDocument ==
  (readOnly /\ last.op \in {"type", "key", "paste", "deleteSelection"}) =>
    lines = last.pre

\* C19: Tab on a list, task or quote line puts one indent unit (2 spaces)
\* in front of the line and, once rendered, the caret is 2 to the right of
\* where it was; the line stays the active one (its activation is deferred
\* again) and the Document keeps its length and its other lines.  Tab on
\* any other line changes neither the Document nor the caret.
C19_TabIndents ==
  [][KeyHandled("Tab") =>
       LET idx == last.idx
           L == preLine(idx)
       IN IF IsListLine(L)
          THEN /\ lines = jsSet(last.pre, idx, <<" ", " ">> \o L)
               /\ Len(lines) = Len(last.pre)
               /\ activeLineIndex = idx /\ ActivationDeferred(idx)
               /\ cursorPositionRef = last.caret + indentSize
               /\ caret' = last.caret + indentSize
               /\ activeLineIndex' = idx
          ELSE /\ lines = last.pre
               /\ cursorPositionRef = last.preCursor
               /\ timers' = timers
               /\ caret' = last.caret
               /\ activeLineIndex' = idx
    ]_vars

\* Tab was pressed on a list line with the caret inside its text.
C19_Witness ==
  /\ KeyHandled("Tab")
  /\ IsListLine(preLine(last.idx))
  /\ last.caret > 0
  /\ Len(lineAt(lines, last.idx)) = Len(preLine(last.idx)) + indentSize

\* The last event is Shift+Tab on a list, task or quote line.
C20_ShiftTabOnListLine ==
  /\ last.op = "key" /\ last.key = "Tab" /\ last.shift
  /\ IsListLine(preLine(last.idx))

\* C20: Shift+Tab on a list or quote line that starts with an indent unit
\* removes that unit and sets the caret one unit to the left, not below 0;
\* on a line that does not, it is a no-op: the Document is unchanged and no
\* caret other than the present one is pending.
C20_ShiftTabOutdents ==
  C20_ShiftTabOnListLine =>
    LET idx == last.idx
        L == preLine(idx)
    IN IF Len(L) >= indentSize /\ \A j \in 1..indentSize : L[j] = " "
       THEN /\ lines = jsSet(last.pre, idx, SubSeq(L, indentSize + 1, Len(L)))
            /\ cursorPositionRef = Max(0, last.caret - indentSize)
       ELSE /\ lines = last.pre
            /\ cursorPositionRef \in {last.preCursor, last.caret}

\* The lines of the Document before the 0-based index from and after the
\* index to are, in the same order, the first and the last lines of the
\* Document now, and these two parts do not overlap.
C21_OutsideKept(from, to) ==
  LET after == Len(last.pre) - 1 - to
  IN /\ Len(lines) >= from + after
     /\ \A j \in 0..(from - 1) : lineAt(lines, j) = preLine(j)
     /\ \A j \in 1..after :
          lines[Len(lines) - after + j] = last.pre[to + 1 + j]

\* C21: no built-in operation loses or alters an unrelated line.  Typing,
\* Enter, marker strip, Tab and paste change only line i and the lines they
\* insert after it, a Backspace merge only lines i-1 and i, a selection
\* deletion only lines startIdx..endIdx; the lines before and after keep
\* their text and their order.
C21_UnrelatedLinesKept ==
  /\ last.op \in {"type", "paste"} => C21_OutsideKept(last.idx, last.idx)
  /\ last.op = "key" =>
       IF last.key = "Backspace" /\ Len(lines) < Len(last.pre)
       THEN C21_OutsideKept(last.idx - 1, last.idx)
       ELSE C21_OutsideKept(last.idx, last.idx)
  /\ last.op = "deleteSelection" => C21_OutsideKept(last.sel[1], last.sel[3])
  /\ last.op \in {"type", "paste", "key"} => Len(lines) >= Len(last.pre) - 1

\* Enter was pressed on a line that has lines before and after it.
C21_Witness ==
  /\ KeyHandled("Enter")
  /\ last.idx > 0
  /\ last.idx < Len(last.pre) - 1
  /\ Len(lines) = Len(last.pre) + 1
  /\ preLine(last.idx + 1) # <<>>

\* The last event was handled by an interceptor whose call of the edit API
\* names a line index outside the Document (for insertLine, past its end).
C22_OutOfRangeCall ==
  /\ last.op \in {"extKey", "extPaste"}
  /\ \/ /\ last.call.api \in {"setLine", "deleteLines"}
        /\ last.call.i >= Len(last.pre)
     \/ /\ last.call.api = "insertLine"
        /\ last.call.i > Len(last.pre)

\* C22: an operation given a line index outside the Document returns
\* without changing the Document, the active line or the pending caret.
C22_OutOfRangeIgnored ==
  C22_OutOfRangeCall =>
    /\ lines = last.pre
    /\ activeLineIndex = last.idx
    /\ cursorPositionRef = last.preCursor

\* C23: for a line L and a display offset d within its display content, the
\* source index that mapDisplayOffsetToSourceIndex(L, d) returns lies
\* between the end of the structural prefix and the end of L, does not cut
\* a ** marker, and has exactly d displayed characters (characters outside
\* the ** markers) between the end of the prefix and itself, so deriving
\* the display offset back from it gives d.
C23_MapRoundTrip ==
  last.op = "map" =>
    LET L == last.line
        prefix == getRemovedPrefixLength(L)
        src == cursorPositionRef
    IN /\ src >= prefix /\ src <= Len(L)
       /\ Len(removeStars(SubSeq(L, prefix + 1, src))) = last.offset
       /\ removeStars(SubSeq(L, prefix + 1, src))
            \o removeStars(SubSeq(L, src + 1, Len(L)))
            = removeStars(SubSeq(L, prefix + 1, Len(L)))

\* An offset behind a ** marker of a line with a structural prefix was
\* mapped.
C23_Witness ==
  /\ last.op = "map"
  /\ last.offset > 0
  /\ getRemovedPrefixLength(last.line) > 0
  /\ cursorPositionRef > getRemovedPrefixLength(last.line) + last.offset
  /\ cursorPositionRef < Len(last.line)

\* The line is some whitespace followed by the characters of one of the
\* strings of the set heads.
C24_IndentedHead(line, heads) ==
  \E k \in 0..Len(line) :
    /\ \A j \in 1..k : line[j] \in WS
    /\ \E h \in heads : startsWith(SubSeq(line, k + 1, Len(line)), h)

C24_Bullets == {"-", "*"}

\* bullet, whitespace, checkbox, whitespace
C24_TaskHeads ==
  {<<b, w, "[", c, "]", v>> :
     b \in C24_Bullets, w \in WS, c \in {" ", "x", "X"}, v \in WS}

C24_UlHeads == {<<b, w>> : b \in C24_Bullets, w \in WS}

C24_BqHeads == {<<">", w>> : w \in WS}

\* Some whitespace, one or more digits, a dot and whitespace.
C24_IsOrdered(line) ==
  \E k \in 0..Len(line), d \in 1..Len(line) :
    /\ k + d + 2 <= Len(line)
    /\ \A j \in 1..k : line[j] \in WS
    /\ \A j \in (k + 1)..(k + d) : IsDigit(line[j])
    /\ line[k + d + 1] = "."
    /\ line[k + d + 2] \in WS

\* n number signs and whitespace at the start of the line.
C24_IsHeading(line, n) ==
  /\ Len(line) > n
  /\ \A j \in 1..n : line[j] = "#"
  /\ line[n + 1] \in WS

\* C24: the classifier gives every line one of the seven line types, by
\* the first match in the order heading 1 to 4, task or unordered item,
\* ordered item, blockquote, paragraph; a task line, whatever its
\* indentation, bullet and checkbox, is a list item.
C24_ClassifyPrecedence ==
  last.op = "classify" =>
    LET L == last.line
        t == last.type
    IN /\ t \in {"h1", "h2", "h3", "h4", "li", "blockquote", "p"}
       /\ t = IF C24_IsHeading(L, 1) THEN "h1"
              ELSE IF C24_IsHeading(L, 2) THEN "h2"
              ELSE IF C24_IsHeading(L, 3) THEN "h3"
              ELSE IF C24_IsHeading(L, 4) THEN "h4"
              ELSE IF C24_IndentedHead(L, C24_TaskHeads \cup C24_UlHeads)
                   THEN "li"
              ELSE IF C24_IsOrdered(L) THEN "li"
              ELSE IF C24_IndentedHead(L, C24_BqHeads) THEN "blockquote"
              ELSE "p"
       /\ C24_IndentedHead(L, C24_TaskHeads) => t = "li"

\* An indented, checked task line was classified.
C24_Witness ==
  /\ last.op = "classify"
  /\ C24_IndentedHead(last.line, C24_TaskHeads)
  /\ last.line[1] = " "
  /\ isChecked(last.line)
  /\ last.type = "li"

\* The whitespace the line starts with.
C25_Indent(line) ==
  SubSeq(line, 1, CHOOSE k \in 0..Len(line) :
                    /\ \A j \in 1..k : line[j] \in WS
                    /\ k < Len(line) => line[k + 1] \notin WS)

\* The number written by the digits that follow the indentation, up to the
\* first dot.
C25_Number(line) ==
  LET k == Len(C25_Indent(line))
      dot == CHOOSE j \in (k + 1)..Len(line) :
               line[j] = "." /\ \A m \in (k + 1)..(j - 1) : line[m] # "."
  IN parseInt(SubSeq(line, k + 1, dot - 1))

\* C25: the marker for a continuation line follows the kind of the line:
\* on an ordered line it is the indentation, the line's number plus one, a
\* dot and a space; on a task line the indentation, the bullet and an
\* unchecked box, whatever the line's own box; on an unordered or quote
\* line it is the line's own marker.
C25_NextMarker ==
  last.op = "meta" =>
    LET L == last.line
        m == last.meta
        indent == C25_Indent(L)
        bullet == L[Len(indent) + 1]
    IN /\ m.kind = (IF C24_IndentedHead(L, C24_TaskHeads) THEN "task"
                    ELSE IF C24_IndentedHead(L, C24_UlHeads) THEN "ul"
                    ELSE IF C24_IsOrdered(L) THEN "ol"
                    ELSE IF C24_IndentedHead(L, C24_BqHeads) THEN "blockquote"
                    ELSE "none")
       /\ m.kind = "ol" =>
            /\ m.number = C25_Number(L)
            /\ m.currentMarker = indent \o toString(C25_Number(L)) \o <<".", " ">>
            /\ m.nextMarker = indent \o toString(C25_Number(L) + 1) \o <<".", " ">>
       /\ m.kind = "task" =>
            m.nextMarker = indent \o <<bullet, " ", "[", " ", "]", " ">>
       /\ m.kind = "ul" =>
            /\ m.currentMarker = indent \o <<bullet, " ">>
            /\ m.nextMarker = m.currentMarker
       /\ m.kind = "blockquote" =>
            /\ m.currentMarker = indent \o <<">", " ">>
            /\ m.nextMarker = m.currentMarker
       /\ m.kind = "none" => m.nextMarker = <<>>

\* The metadata of an indented ordered line was computed.
C25_Witness ==
  /\ last.op = "meta"
  /\ last.meta.kind = "ol"
  /\ last.meta.indent # <<>>
  /\ last.meta.number = 9
  /\ last.meta.nextMarker = <<" ", "1", "0", ".", " ">>

\* The last event is an Enter split, a Backspace merge or a multi-line
\* paste: it set the pending caret and deferred the activation of another
\* line than the active one.
C26_EditDefersActivation ==
  /\ last.op \in {"key", "paste"}
  /\ Len(lines) # Len(last.pre)
  /\ timers # <<>>
  /\ timers[Len(timers)] # activeLineIndex
  /\ activeLineIndex = last.idx
  /\ cursorPositionRef # null

\* C26: the pending caret set by an Enter split, a Backspace merge or a
\* multi-line paste is still pending after the render that follows the
\* edit, when the target line is not active yet: the widget of the line
\* that is still active does not consume it.
C26_PendingCaretKept ==
  [][C26_EditDefersActivation => cursorPositionRef' = cursorPositionRef]_vars

\* C27: at any time at most one deferred activation is pending, and a
\* deferred activation that fires is the one the latest operation
\* scheduled: it does not replace an active-line index set after it was
\* scheduled.
C27_OneDeferredActivation ==
  /\ Len(timers) <= 1
  /\ last.op = "timer" => timers = <<>>

\* The last event is a move of the pointer, the primary button held, over
\* the content of a read-only line, in a drag that started in the active
\* line's textarea.
C28_DragLeavesWidget ==
  /\ pc = "commit"
  /\ last.op = "mouseMove"
  /\ last.target.kind = "content"
  /\ last.idx # null
  /\ last.refs.down
  /\ last.refs.isSelecting
  /\ last.refs.dragging

\* C28: when a pointer drag starts inside the active line's input widget
\* and, with the primary button held, moves over a read-only line, the
\* bridge deactivates the widget, installs a selection running from the
\* anchor (line index, display offset) captured at pointer-down to the
\* pointer position, and marks the selection as bridged.
C28_DragBridgesSelection ==
  C28_DragLeavesWidget =>
    /\ activeLineIndex = null
    /\ last.refs.anchor # <<>>
    /\ ptr.sel = <<last.refs.anchor[1], last.refs.anchor[2],
                   last.target.j, last.target.off>>
    /\ ptr.bridging

\* The part of C28 the handler does: the widget is deactivated and the drag
\* no longer counts as one from the textarea.
C28_DragDeactivates ==
  C28_DragLeavesWidget => activeLineIndex = null /\ ~ptr.dragging

\* A drag from the textarea has no anchor, so no selection is ever marked
\* as bridged.
C28_NeverBridged ==
  /\ ptr.dragging => ptr.anchor = <<>>
  /\ ~ptr.bridging

\* The last event is an operation, built-in or of an interceptor through
\* the extension API, that changed the number of lines of the Document.
C29_ShapeChanged ==
  /\ pc = "commit"
  /\ last.op \in {"type", "key", "paste", "deleteSelection", "extKey",
                  "extPaste"}
  /\ Len(lines) # Len(last.pre)

\* C29: every operation that changes the shape of the Document, built-in
\* (Enter split, Backspace merge, multi-line paste, selection deletion) or
\* made through the extension API (insertLine, deleteLines, setValue), marks
\* the document dirty, so that the render after it sets the debounce timer.
C29_ShapeChangeMarksDirty ==
  C29_ShapeChanged => isDirty

\* The built-in part of C29: a handler whose interceptors made no call
\* marks the document dirty when it changes the shape.
C29_BuiltinMarksDirty ==
  C29_ShapeChanged /\ last.call = NoCall => isDirty

\* A render follows an edit made by typing in controlled use: the host has
\* fed the typed content back as the value.
C30_TypedAndFedBack ==
  /\ pc = "commit"
  /\ last.op = "echo"
  /\ lines # last.pre
  /\ value = join(lines)

\* C30: in controlled use, where the host feeds every value received by
\* the immediate-change callback back as the value, an edit made by typing
\* leaves the debounce timer pending once the editor has rendered, so that
\* a quiet period of the debounce length ends with the debounced callback
\* invoked with the edited content.
C30_ControlledEditDebounced ==
  [][C30_TypedAndFedBack /\ pc' = "idle" => debounceTimer']_vars

\* What the code does instead: the render after the value is fed back finds
\* the document clean and leaves no timer.
C30_FedBackValueCancels ==
  [][C30_TypedAndFedBack /\ pc' = "idle" => ~isDirty' /\ ~debounceTimer']_vars

\* Line l holds no line-break character.
C31_NoLineBreak(l) == \A j \in 1..Len(l) : l[j] # "\n"

\* C31: in every reachable state no line of the Document contains a
\* line-break character, so splitting the joined Document on line breaks
\* gives back the same sequence of lines.
C31_LinesHoldNoLineBreak ==
  /\ \A i \in 1..Len(lines) : C31_NoLineBreak(lines[i])
  /\ lines # <<>> => split(join(lines)) = lines

\* The part of C31 that holds: typing a character and a paste the handler
\* splits itself leave no line break in a line.
C31_SplitPasteAndTyping ==
  /\ pc = "commit"
  /\ \/ last.op = "type"
     \/ /\ last.op = "paste"
        /\ pasteSplits(last.text, last.key = "multiSel", last.options)
  /\ \A i \in 1..Len(last.pre) : C31_NoLineBreak(last.pre[i])
  => \A i \in 1..Len(lines) : C31_NoLineBreak(lines[i])

\* Enter pressed while isSelectingRef is set puts a line break into the
\* active line.
C31_EnterWhileSelecting ==
  /\ pc = "commit"
  /\ last.op = "key"
  /\ last.key = "Enter"
  /\ last.refs.isSelecting
  => C31_NoLineBreak(lineAt(lines, last.idx))

\* The number of non-overlapping ** markers of s, counted from the left.
RECURSIVE C32_Markers(_)
C32_Markers(s) ==
  IF Len(s) < 2 THEN 0
  ELSE IF s[1] = "*" /\ s[2] = "*"
  THEN 1 + C32_Markers(SubSeq(s, 3, Len(s)))
  ELSE C32_Markers(Tail(s))

\* The display characters the offset mapper walks on line L: the content
\* after the one prefix it strips, less its ** markers.
C32_Walked(L) ==
  LET prefix == getRemovedPrefixLength(L)
  IN Len(L) - prefix - 2 * C32_Markers(SubSeq(L, prefix + 1, Len(L)))

\* C32: for every line L, displayContentLength(L) equals the number of
\* display characters the offset mapper walks on L: the length of L minus
\* strippedPrefixLength(L) minus 2 for each non-overlapping ** marker in the
\* content after the prefix (only one structural prefix is removed, also
\* for lines such as `- - a` or `# - a`).
C32_DisplayLengthIsWalk ==
  last.op = "length" => last.offset = C32_Walked(last.line)

\* The part of C32 that holds: the two agree on every line whose content
\* after the stripped prefix does not begin with another structural prefix.
C32_OnePrefixAgrees ==
  last.op = "length"
    /\ getRemovedPrefixLength(
         SubSeq(last.line, getRemovedPrefixLength(last.line) + 1,
                Len(last.line))) = 0
    => last.offset = C32_Walked(last.line)

\* C33: displayOffsetToSource is clamped: for every line L and every
\* display offset d greater than displayContentLength(L) it returns the
\* full length of L, and for every d >= 0 its result lies between
\* strippedPrefixLength(L) and the length of L.
C33_MapClamped ==
  /\ last.op = "mapBeyond" => cursorPositionRef = Len(last.line)
  /\ last.op \in {"map", "mapBeyond"} =>
       /\ cursorPositionRef >= getRemovedPrefixLength(last.line)
       /\ cursorPositionRef <= Len(last.line)

\* The part of C33 that holds: the result lies between the stripped prefix
\* and the end of the line, and it is the end of the line for every offset
\* past the display characters the mapper walks.
C33_ClampedToWalk ==
  last.op \in {"map", "mapBeyond"} =>
    /\ cursorPositionRef >= getRemovedPrefixLength(last.line)
    /\ cursorPositionRef <= Len(last.line)
    /\ last.offset > C32_Walked(last.line) =>
         cursorPositionRef = Len(last.line)

\* C34: for every line whose list kind is not none, currentMarker is
\* exactly the prefix of the line of length strippedPrefixLength(line): same
\* indentation, same bullet or number, and for a task line the checkbox
\* state of the line's own checkbox.
C34_CurrentMarkerIsPrefix ==
  last.op = "meta" /\ last.meta.kind # "none" =>
    last.meta.currentMarker
      = SubSeq(last.line, 1, getRemovedPrefixLength(last.line))

\* The line's prefix is written the way getListMeta writes markers: one
\* space after the bullet, the number or the checkbox, a lower-case x in a
\* checked box, no leading zero in a number.
C34_CanonicalPrefix ==
  LET L == last.line
      n == getRemovedPrefixLength(L)
  IN /\ \A j \in 1..n : L[j] \notin {"\t", "X"}
     /\ \A j \in 1..n : L[j] = "0" => j > 1 /\ L[j - 1] \in {"1", "9"}

\* The part of C34 that holds: on a line with a canonical prefix the
\* marker is the prefix, up to the checkbox state.
C34_CanonicalMarkerIsPrefix ==
  last.op = "meta" /\ last.meta.kind # "none" /\ C34_CanonicalPrefix =>
    LET L == last.line
        n == getRemovedPrefixLength(L)
    IN /\ Len(last.meta.currentMarker) = n
       /\ \A j \in 1..n :
            \/ last.meta.currentMarker[j] = L[j]
            \/ last.meta.kind = "task" /\ j = n - 2

\* The checkbox of currentMarker is checked only when the line's own
\* checkbox is.
C34_OwnCheckbox ==
  last.op = "meta" /\ last.meta.kind = "task" =>
    LET n == getRemovedPrefixLength(last.line)
    IN last.meta.currentMarker[n - 2] = "x"
         => last.line[n - 2] \in {"x", "X"}

\* C35: for every line the three prefix analyses agree: classify gives
\* list-item exactly when listMeta's kind is unordered, ordered or task;
\* classify gives blockquote exactly when the kind is blockquote; classify
\* gives a heading or paragraph exactly when the kind is none; and
\* strippedPrefixLength is greater than 0 exactly when classify is not
\* paragraph.
C35_AnalysesAgree ==
  last.op = "analyses" =>
    /\ last.type = "li" <=> last.meta.kind \in {"ul", "ol", "task"}
    /\ last.type = "blockquote" <=> last.meta.kind = "blockquote"
    /\ last.type \in {"h1", "h2", "h3", "h4", "p"} <=> last.meta.kind = "none"
    /\ last.offset > 0 <=> last.type # "p"

\* A line of five # and a space was analysed: it is a paragraph with no
\* prefix to strip, though the rendering strips its hashes.
C35_Witness ==
  /\ last.op = "analyses"
  /\ Len(last.line) >= 6
  /\ \A j \in 1..5 : last.line[j] = "#"
  /\ last.line[6] = " "
  /\ last.type = "p"
  /\ last.offset = 0

\* The last event is an arrow key pressed in the active line's textarea.
C36_ArrowKey ==
  /\ pc = "commit"
  /\ last.op = "key"
  /\ last.key \in {"ArrowUp", "ArrowDown"}

\* The line the arrow key of the last event leads to: the adjacent one, or
\* the line itself at the first and at the last line.
C36_Target ==
  IF last.key = "ArrowUp"
  THEN (IF last.idx > 0 THEN last.idx - 1 ELSE last.idx)
  ELSE (IF last.idx < Len(last.pre) - 1 THEN last.idx + 1 ELSE last.idx)

====
